---- MODULE Spec2Model ----
(***************************************************************************)
(* Lock simulation engine of wdm-simulator: optical waves, ring row,       *)
(* tuner search/lock, arbiter instructions and memory, and the tick loop   *)
(* of SystemUnderTest.run_lock_sequence with its exit classification.      *)
(*                                                                         *)
(* Wavelengths are integers (one unit = one grid step); the float          *)
(* arithmetic of the source is exact on them.  Slices are numbered from 0  *)
(* as in the source; wave indices are 0-based positions in a sorted wave,  *)
(* stored in 1-based TLA+ sequences.  An optional value (Python None or a  *)
(* float) is a sequence of length 0 or 1.                                  *)
(***************************************************************************)
EXTENDS Integers, Sequences, FiniteSets, TLC

\* ------------------------------------------------------------------ bounds
\* largest number of Rx slices (rings) in a row
MaxSlices == 3
\* largest row on which an arbitrary algorithm (not only SimpleArbiter's) runs
MaxGenericSlices == 2
\* most suspension points an arbitrary algorithm passes in one run
MaxTicks == 2
\* most instructions an arbitrary algorithm issues in one run
MaxInstr == 2
\* largest lock selection index an arbitrary algorithm passes to LockInst
MaxSelect == 0
\* most tick() calls the driver makes after run_lock_sequence has ended
MaxRetick == 1
\* most run_lock_sequence calls a driver makes on one system
MaxRuns == 2
\* largest row on which the lane order of every lock assignment is checked
MaxLaneSlices == 4
\* most RxSlice calls a test driver makes directly on one system
MaxCalls == 5
\* largest lock selection index the test driver passes to acquire_lock
MaxCallSelect == 3
\* largest row on which a test driver runs instruction objects itself
MaxInstSlices == 2
\* most calls that driver makes on one system
MaxInstCalls == 5
\* largest select value that driver hands to LockInst
MaxInstSelect == 1
\* longest wavelength list an OpticalWave is constructed from
MaxWaveLen == 2
\* most OpticalWave constructions and operations a test driver chains
MaxWaveOps == 3

\* ------------------------------------------------------- program constants
VDAC_FS == 256

SEARCH_DONE == 0
SEARCH_NOT_STARTED == 1
SEARCH_NO_WAVE == 2
SEARCH_NOT_IN_RANGE == 3

LOCK_DONE == 4
LOCK_NOT_STARTED == 5
LOCK_NO_WAVE == 6
LOCK_NOT_IN_RANGE == 7

EXIT_SUCCESS == 0
EXIT_ZERO_LOCK == 1
EXIT_DUPLICATE_LOCK == 2
EXIT_WRONG_LANE_ORDER == 3

\* Python None for an optional float
None == << >>

\* the four lock policies accepted by Tuner.acquire_lock
LockModes == {"least_significant", "nearest", "most_significant", "middle"}

\* ------------------------------------------------------------ input sets
\* ring design parameters {fsr, tuning_range} (examples/run_arbiter.py uses
\* fsr = 2 * tuning_range = 4 * channel spacing)
RingParams == [fsr |-> 8, tuning_range |-> 4]

\* post-fabrication resonance wavelengths a ring may have
RingWavelengths == {10, 12}

\* rows of n rings: the first ring has any of the resonances, the rings
\* behind it sit on the lowest one
RingRowChoices(n) ==
    { row \in [ 0 .. (n - 1) -> RingWavelengths ] :
        \A i \in 1 .. (n - 1) : row[i] = 10 }

\* laser wavelength lists handed to LaserGrid.from_wavelengths
LaserChoices == { << >>, <<12>>, <<14, 12, 10>> }

\* ---------------------------------------------------------------- state
VARIABLES
    num_slices,         \* BaseArbiter.num_slices = len(rx_slices)
    rings,              \* Ring.wavelength / fsr / tuning_range per slice
    target_lane_order,  \* BaseArbiter.target_lane_order (None or a list)
    arbiter_cls,        \* which algorithm() the arbiter class supplies
    laser_out,          \* LaserGrid.ports['out'].wave
    is_connected,       \* ring.ports['in'].is_connected per slice
    wave_in,            \* ring.ports['in'].wave per slice
    wave_thru,          \* ring.ports['thru'].wave per slice
    curr_wavelength,    \* RingRxWDM.curr_wavelength per slice
    tuner,              \* Tuner fields per slice
    memory,             \* BaseArbiterMemory entry
    end_state,          \* BaseArbiter.end_state
    lock_error_state,   \* BaseArbiter.lock_error_state
    gen_pos,            \* suspension points of _step_algorithm consumed
    gen_done,           \* _step_algorithm has finished (returned or raised)
    instr_count,        \* instructions run since the run started
    run_pc,             \* position inside run_lock_sequence
    exit_status,        \* value returned by run_lock_sequence ({} = none)
    exc,                \* exception that left tick() / run_lock_sequence
    last_tick,          \* outcome of the latest arbiter.tick() call
    n_props,            \* propagate_wave calls made by the current run
    runs,               \* number of run_lock_sequence calls started
    reticks,            \* tick() calls made by the driver after the run
    slice_log,          \* the RxSlice calls a test driver has made directly
    driver_inst,        \* the instruction object a test driver holds
    wave_calc,          \* OpticalWave objects a test driver computes with
    returned            \* what the earlier run_lock_sequence calls returned

vars == << num_slices, rings, target_lane_order, arbiter_cls, laser_out,
           is_connected, wave_in, wave_thru, curr_wavelength, tuner, memory,
           end_state, lock_error_state, gen_pos, gen_done, instr_count,
           run_pc, exit_status, exc, last_tick, n_props, runs, reticks,
           slice_log, driver_inst, wave_calc, returned >>

Slices == 0 .. (num_slices - 1)

\* ------------------------------------------------------------ OpticalWave
ToSet(s) == { s[k] : k \in DOMAIN s }

\* OpticalWave(list): sorted(list), repeated values are kept
OpticalWaveFromList(s) ==
    [ p \in 1 .. Len(s) |->
        CHOOSE v \in ToSet(s) :
            /\ Cardinality({ k \in DOMAIN s : s[k] < v }) < p
            /\ p <= Cardinality({ k \in DOMAIN s : s[k] <= v }) ]

\* OpticalWave(set): sorted(list(set))
OpticalWaveFromSet(S) ==
    [ p \in 1 .. Cardinality(S) |->
        CHOOSE v \in S : Cardinality({ u \in S : u < v }) = p - 1 ]

filter_by_wavelength(wave, wavelength, invert) ==
    IF invert
    THEN OpticalWaveFromSet(ToSet(wave) \ {wavelength})
    ELSE IF wavelength \in ToSet(wave) THEN <<wavelength>> ELSE << >>

\* OpticalWave.__add__: OpticalWave(set(self) | set(other))
OpticalWaveAdd(wave, other) == OpticalWaveFromSet(ToSet(wave) \cup ToSet(other))

\* OpticalWave.__sub__: OpticalWave(set(self) - set(other))
OpticalWaveSub(wave, other) == OpticalWaveFromSet(ToSet(wave) \ ToSet(other))

\* OpticalWave.__eq__ on two OpticalWave objects: equality of the lists
OpticalWaveEq(wave, other) == wave = other

\* OpticalWave.filter_by_wavelength_range
filter_by_wavelength_range(wave, wavelength_min, wavelength_max) ==
    OpticalWaveFromSet({ w \in ToSet(wave) :
                           wavelength_min <= w /\ w <= wavelength_max })

\* a filter by index that always returns the selected wavelength
filter_by_wave_idx_never_inverts(wave, wave_idx, invert) ==
    <<wave[wave_idx + 1]>>

\* a filter that lets every wavelength through
filter_by_wave_idx_all_pass(wave, wave_idx, invert) == wave

filter_by_wave_idx(wave, wave_idx, invert) ==
    IF invert
    THEN OpticalWaveFromSet(ToSet(wave) \ {wave[wave_idx + 1]})
    ELSE <<wave[wave_idx + 1]>>

\* ------------------------------------------------------------------ Tuner
EmptyDict == << >>

\* Tuner.__init__ / Tuner.hard_reset
TunerHardReset ==
    [ search_table    |-> {},
      search_status   |-> SEARCH_NOT_STARTED,
      lock_status     |-> LOCK_NOT_STARTED,
      lock_code       |-> -1,
      lock_code_prev  |-> -1,
      search_data     |-> EmptyDict,
      lock_data       |-> EmptyDict,
      lock_wavelength |-> None ]

\* a soft reset that also clears the previous lock code
TunerSoftResetClearsHistory(t) ==
    [ t EXCEPT !.search_status   = SEARCH_NOT_STARTED,
               !.lock_status     = LOCK_NOT_STARTED,
               !.lock_code_prev  = -1,
               !.search_data     = EmptyDict,
               !.lock_data       = EmptyDict,
               !.lock_wavelength = None ]

\* Tuner.soft_reset: search_table, lock_code and lock_code_prev are kept
TunerSoftReset(t) ==
    [ t EXCEPT !.search_status   = SEARCH_NOT_STARTED,
               !.lock_status     = LOCK_NOT_STARTED,
               !.search_data     = EmptyDict,
               !.lock_data       = EmptyDict,
               !.lock_wavelength = None ]

\* a sweep that covers the window at the resonance only
get_sweep_range_single_window(ring) ==
    << << ring.wavelength, ring.wavelength + ring.tuning_range >> >>

\* Tuner.get_sweep_range: nine red-shift windows, k = -4 .. 4
get_sweep_range(ring) ==
    [ n \in 1 .. 9 |->
        << ring.wavelength + (n - 5) * ring.fsr,
           ring.wavelength + (n - 5) * ring.fsr + ring.tuning_range >> ]

\* int((wavelength - sweep[0]) / (sweep[1] - sweep[0]) * VDAC_FS); the
\* operand is never negative, so truncation is integer division
VoltageCode(wavelength, sweep) ==
    ((wavelength - sweep[1]) * VDAC_FS) \div (sweep[2] - sweep[1])

\* the windows (in list order) that contain the wavelength
SweepsContaining(wavelength, sweep_range) ==
    { n \in DOMAIN sweep_range :
        wavelength >= sweep_range[n][1] /\ wavelength <= sweep_range[n][2] }

SetMax(S) == CHOOSE m \in S : \A x \in S : x <= m

\* "waves.wavelengths is None": OpticalWave.__init__ always stores a list
WavelengthsIsNone(waves) == FALSE

\* Tuner.search_lock.  The double loop adds the code of every containing
\* window to search_table and leaves in search_data[wave_idx] the code of
\* the last containing window.
search_lock(t, ring, waves) ==
    LET sweep_range == get_sweep_range(ring)
        found == { k \in DOMAIN waves :
                     SweepsContaining(waves[k], sweep_range) # {} }
        table == UNION { { VoltageCode(waves[k], sweep_range[n]) :
                             n \in SweepsContaining(waves[k], sweep_range) } :
                         k \in found }
        data  == [ wave_idx \in { k - 1 : k \in found } |->
                     VoltageCode(waves[wave_idx + 1],
                        sweep_range[SetMax(SweepsContaining(waves[wave_idx + 1],
                                                            sweep_range))]) ]
    IN  IF WavelengthsIsNone(waves)
        THEN [ t EXCEPT !.search_status = SEARCH_NO_WAVE ]
        ELSE [ t EXCEPT !.search_table  = table,
                        !.search_data   = data,
                        !.search_status = IF found # {} THEN SEARCH_DONE
                                          ELSE SEARCH_NOT_IN_RANGE ]

Abs(x) == IF x < 0 THEN -x ELSE x

\* sorted(search_data.items(), key=...): a stable sort of the items, which
\* the dict holds in ascending wave index; key[code] is the sort key
SortedItems(search_data, key) ==
    LET Before(a, b) ==
            \/ key[search_data[a]] < key[search_data[b]]
            \/ key[search_data[a]] = key[search_data[b]] /\ a < b
        Rank(a) == Cardinality({ b \in DOMAIN search_data : Before(b, a) })
    IN  [ r \in 1 .. Cardinality(DOMAIN search_data) |->
            LET wave_idx == CHOOSE a \in DOMAIN search_data : Rank(a) = r - 1
            IN  << wave_idx, search_data[wave_idx] >> ]

DictLen(d) == Cardinality(DOMAIN d)

\* the voltage codes a search_data dict holds
DictValues(d) == { d[k] : k \in DOMAIN d }

find_lock_to_least_significant(t, select) ==
    LET ByCode == [ code \in DictValues(t.search_data) |-> code ]
    IN  IF select >= DictLen(t.search_data) THEN None
        ELSE SortedItems(t.search_data, ByCode)[select + 1]

find_lock_to_nearest(t, select) ==
    LET ByDistance == [ code \in DictValues(t.search_data) |-> Abs(code - t.lock_code_prev) ]
    IN  IF select >= DictLen(t.search_data) THEN None
        ELSE SortedItems(t.search_data, ByDistance)[select + 1]

\* a most_significant finder that counts from the low end
find_lock_to_most_significant_from_low(t, select) ==
    find_lock_to_least_significant(t, select)

find_lock_to_most_significant(t, select) ==
    LET ByCode == [ code \in DictValues(t.search_data) |-> code ]
    IN  IF select >= DictLen(t.search_data) THEN None
        ELSE SortedItems(t.search_data, ByCode)[DictLen(t.search_data) - select]

\* a middle finder that ranks by the distance to the mid-scale code
find_lock_to_middle_by_mid_code(t, select) ==
    LET ByMid == [ code \in DictValues(t.search_data) |->
                     Abs(code - VDAC_FS \div 2) ]
    IN  IF select >= DictLen(t.search_data) THEN None
        ELSE SortedItems(t.search_data, ByMid)[select + 1]

find_lock_to_middle(t, select) ==
    LET ByAbs == [ code \in DictValues(t.search_data) |-> Abs(code) ]
    IN  IF select >= DictLen(t.search_data) THEN None
        ELSE SortedItems(t.search_data, ByAbs)[select + 1]

do_lock(mode, t, select) ==
    CASE mode = "least_significant" -> find_lock_to_least_significant(t, select)
      [] mode = "nearest"           -> find_lock_to_nearest(t, select)
      [] mode = "most_significant"  -> find_lock_to_most_significant(t, select)
      [] mode = "middle"            -> find_lock_to_middle(t, select)

\* find_lock_to_nearest overwrites a negative lock_code_prev with mid-scale
\* before it looks at select
NearestDefault(t, mode) ==
    IF mode = "nearest" /\ t.lock_code_prev < 0
    THEN [ t EXCEPT !.lock_code_prev = VDAC_FS \div 2 ]
    ELSE t

\* Tuner.acquire_lock once the finder has returned lock_table_entry: no
\* entry leaves the tuner as it is, an entry is locked to
AcquireLockEntry(t1, waves, lock_table_entry) ==
    IF lock_table_entry = None
    THEN [ tuner |-> t1, tune |-> None ]
    ELSE LET wave_idx     == lock_table_entry[1]
             voltage_code == lock_table_entry[2]
         IN  [ tuner |->
                 [ t1 EXCEPT !.lock_status     = LOCK_DONE,
                             !.lock_data       = wave_idx :> voltage_code,
                             !.lock_code_prev  = t1.lock_code,
                             !.lock_code       = voltage_code,
                             !.lock_wavelength = << waves[wave_idx + 1] >> ],
               tune |-> << wave_idx >> ]

\* an acquire_lock that does not look at search_status
acquire_lock_unguarded(t, waves, mode, select) ==
    [ tuner |-> NearestDefault(t, mode), tune |-> None ]

\* Tuner.acquire_lock (mode and select already valid): the tuner after the
\* call and the wave index handed to ring.acquire_lock_by_wave_idx, if any
acquire_lock(t, waves, mode, select) ==
    IF t.search_status # SEARCH_DONE
    THEN [ tuner |->
             [ t EXCEPT !.lock_status =
                 CASE t.search_status = SEARCH_NOT_STARTED  -> LOCK_NOT_STARTED
                   [] t.search_status = SEARCH_NO_WAVE      -> LOCK_NO_WAVE
                   [] t.search_status = SEARCH_NOT_IN_RANGE -> LOCK_NOT_IN_RANGE
                   [] OTHER -> @ ],
           tune |-> None ]
    ELSE LET t1 == NearestDefault(t, mode)
         IN  AcquireLockEntry(t1, waves, do_lock(mode, t1, select))

\* an unlock that resets the whole tuner, search results included
release_lock_as_hard_reset(t) == TunerHardReset

\* Tuner.release_lock, tuner side
release_lock(t) ==
    [ t EXCEPT !.lock_status     = LOCK_NOT_STARTED,
               !.lock_data       = EmptyDict,
               !.lock_wavelength = None,
               !.lock_code       = -1 ]

\* a get_lock_idx that returns the lock code itself
get_lock_idx_as_code(t) == << t.lock_code >>

\* Tuner.get_lock_idx: sorted(search_table).index(lock_code); the empty
\* result stands for the ValueError of list.index
get_lock_idx(t) ==
    IF t.lock_code \in t.search_table
    THEN << Cardinality({ c \in t.search_table : c < t.lock_code }) >>
    ELSE None

\* -------------------------------------------------------- Ring / RingRow
\* the wave on the port that ring i's IN port is connected to
ConnWave(i, thru, laser) == IF i = 0 THEN laser ELSE thru[i - 1]

\* OpticalPort.propagate_wave_from_conn, guarded by is_connected
PortIn(i, win, thru, laser, conn) ==
    IF conn[i] THEN ConnWave(i, thru, laser) ELSE win[i]

\* a row that visits its rings downstream first
RowVisitOrderReversed == [ k \in 1 .. num_slices |-> num_slices - k ]

\* "for ring in self.rings": the order in which a row visits its rings
RowVisitOrder == [ k \in 1 .. num_slices |-> k - 1 ]

\* RingRxWDM.passthrough_wave on ring i
RingPassthrough(i, w) ==
    LET new_in == PortIn(i, w.wave_in, w.wave_thru, w.laser_out, w.is_connected)
    IN  [ w EXCEPT !.wave_in[i] = new_in, !.wave_thru[i] = new_in ]

\* a propagate_wave that drops nothing: THRU = IN
RingPropagateNoDrop(i, w) ==
    LET new_in == PortIn(i, w.wave_in, w.wave_thru, w.laser_out, w.is_connected)
    IN  [ w EXCEPT !.wave_in[i] = new_in, !.wave_thru[i] = new_in ]

\* RingRxWDM.propagate_wave on ring i
RingPropagate(i, w) ==
    LET new_in == PortIn(i, w.wave_in, w.wave_thru, w.laser_out, w.is_connected)
    IN  [ w EXCEPT !.wave_in[i] = new_in,
                   !.wave_thru[i] =
                       filter_by_wavelength(new_in, curr_wavelength[i], TRUE) ]

RECURSIVE RowPassthroughFrom(_, _)
RowPassthroughFrom(k, w) ==
    IF k > Len(RowVisitOrder) THEN w
    ELSE RowPassthroughFrom(k + 1, RingPassthrough(RowVisitOrder[k], w))

RECURSIVE RowPropagateFrom(_, _)
RowPropagateFrom(k, w) ==
    IF k > Len(RowVisitOrder) THEN w
    ELSE RowPropagateFrom(k + 1, RingPropagate(RowVisitOrder[k], w))

\* RingRxWDMRow.passthrough_wave on the waves win, thru of the rings, with
\* the laser output and the port connections given
RowPassthrough(win, thru, laser, conn) ==
    RowPassthroughFrom(1, [ wave_in |-> win, wave_thru |-> thru,
                            laser_out |-> laser, is_connected |-> conn ])

\* RingRxWDMRow.propagate_wave, likewise
RowPropagate(win, thru, laser, conn) ==
    RowPropagateFrom(1, [ wave_in |-> win, wave_thru |-> thru,
                          laser_out |-> laser, is_connected |-> conn ])

\* ---------------------------------------------------------- ArbiterMemory
\* ArbiterMemoryTemplate.reset with the BaseArbiterMemory schema
MemoryReset ==
    [ SEARCH_TABLES        |-> EmptyDict,
      RELATION_INDEX_TABLE |-> EmptyDict,
      LOCK_TABLE           |-> EmptyDict,
      SCRATCHPAD           |-> {} ]

\* dict.update({key: value})
DictUpdate(d, key, value) ==
    [ k \in (DOMAIN d) \cup {key} |-> IF k = key THEN value ELSE d[k] ]

\* dict after pop(key), key present
DictPop(d, key) == [ k \in (DOMAIN d) \ {key} |-> d[k] ]

\* ----------------------------------------------------------- Instructions
\* the hardware and memory state an instruction works on
HwState ==
    [ tuner |-> tuner, wave_in |-> wave_in, wave_thru |-> wave_thru,
      curr_wavelength |-> curr_wavelength, memory |-> memory, raised |-> "" ]

\* SearchInst.stage on slice i
SearchInst(h, i) ==
    LET t == search_lock(h.tuner[i], rings[i], h.wave_in[i])
    IN  [ h EXCEPT !.tuner[i] = t,
                   !.memory.SEARCH_TABLES =
                       DictUpdate(@, i, t.search_table) ]

\* LockInst.stage on slice i once acquire_lock has returned locked: the
\* ring is tuned to the wave handed over, if any, and LOCK_TABLE is updated
\* when the tuner reports LOCK_DONE
LockInstAcquired(h, i, locked) ==
    LET t  == locked.tuner
        h1 == IF locked.tune = None
              THEN [ h EXCEPT !.tuner[i] = t ]
              ELSE [ h EXCEPT !.tuner[i] = t,
                              !.wave_thru[i] =
                                  filter_by_wave_idx(h.wave_in[i], locked.tune[1], TRUE),
                              !.curr_wavelength[i] =
                                  h.wave_in[i][locked.tune[1] + 1] ]
    IN  IF t.lock_status = LOCK_DONE
        THEN IF get_lock_idx(t) = None
             THEN [ h1 EXCEPT !.raised = "ValueError" ]
             ELSE [ h1 EXCEPT !.memory.LOCK_TABLE =
                                  DictUpdate(@, i, get_lock_idx(t)[1]) ]
        ELSE h1

\* LockInst.stage on slice i: RxSlice.search_and_acquire_lock (search_lock,
\* then acquire_lock, whose first statements assert that mode is one of the
\* four policies and select >= 0), then the LOCK_TABLE update when the
\* tuner reports LOCK_DONE
LockInst(h, i, mode, select) ==
    LET searched == search_lock(h.tuner[i], rings[i], h.wave_in[i])
    IN  IF ~(mode \in LockModes /\ select >= 0)
        THEN [ h EXCEPT !.tuner[i] = searched, !.raised = "AssertionError" ]
        ELSE LockInstAcquired(h, i, acquire_lock(searched, h.wave_in[i], mode, select))

\* UnlockInst.stage on slice i: RxSlice.release_lock (tuner reset, ring
\* passthrough from its connection, ring detuned), then LOCK_TABLE.pop
UnlockInst(h, i) ==
    LET new_in == PortIn(i, h.wave_in, h.wave_thru, laser_out, is_connected)
        h1 == [ h EXCEPT !.tuner[i] = release_lock(@),
                         !.wave_in[i] = new_in,
                         !.wave_thru[i] = new_in,
                         !.curr_wavelength[i] = rings[i].wavelength ]
    IN  IF i \in DOMAIN h.memory.LOCK_TABLE
        THEN [ h1 EXCEPT !.memory.LOCK_TABLE = DictPop(@, i) ]
        ELSE [ h1 EXCEPT !.raised = "KeyError" ]

\* the instructions an algorithm can issue on the current row
Instructions ==
    { [ op |-> "Search", slice_idx |-> i, mode |-> "", select |-> 0 ] :
        i \in Slices }
    \cup
    { [ op |-> "Lock", slice_idx |-> i, mode |-> m, select |-> s ] :
        i \in Slices, m \in LockModes, s \in 0 .. MaxSelect }
    \cup
    { [ op |-> "Unlock", slice_idx |-> i, mode |-> "", select |-> 0 ] :
        i \in Slices }

\* InstTemplate.run on one instruction
RunInst(h, inst) ==
    CASE inst.op = "Search" -> SearchInst(h, inst.slice_idx)
      [] inst.op = "Lock"   -> LockInst(h, inst.slice_idx, inst.mode, inst.select)
      [] inst.op = "Unlock" -> UnlockInst(h, inst.slice_idx)

\* ---------------------------------------------------------------- Arbiter
\* the slices a helper looks at for its rx_idx argument: all slices for
\* None, the slice for an int, the listed slices for a list.  The argument
\* is [type, value], value being the tuple of the indices given.
HelperSlices(h, rx_idx) ==
    CASE rx_idx.type = "None" -> DOMAIN h.tuner
      [] rx_idx.type = "int"  -> { rx_idx.value[1] }
      [] rx_idx.type = "list" -> ToSet(rx_idx.value)

\* BaseArbiter.check_zero_lock over a list of slices
check_zero_lock(h, S) ==
    \E i \in S : h.tuner[i].lock_status \in { LOCK_NO_WAVE, LOCK_NOT_IN_RANGE }

\* BaseArbiter.check_lock_done over a list of slices (returns at the first
\* slice found LOCK_DONE)
check_lock_done(h, S) ==
    \E i \in S : h.tuner[i].lock_status = LOCK_DONE

\* list.index(value): 0-based position of the first occurrence
ListIndex(list, value) ==
    (CHOOSE k \in DOMAIN list :
        list[k] = value /\ \A j \in 1 .. (k - 1) : list[j] # value) - 1

\* SimpleArbiter.algorithm: the lock sequence computed at the first resume
slice_lock_sequence ==
    IF target_lane_order # None /\ Len(target_lane_order[1]) > 0
    THEN [ k \in DOMAIN target_lane_order[1] |->
             ListIndex(target_lane_order[1], target_lane_order[1][k]) ]
    ELSE [ k \in 1 .. num_slices |-> k - 1 ]

\* a tick that resumes the routine although lock_error_state is set
TickOutcomeIgnoresLockError ==
    IF ~end_state
    THEN (IF gen_done THEN "StopIteration" ELSE "resume")
    ELSE "False"

\* a tick that resumes the routine although end_state is set
TickOutcomeIgnoresEndState ==
    IF ~lock_error_state
    THEN (IF gen_done THEN "StopIteration" ELSE "resume")
    ELSE "False"

\* a tick that reports "no progress" for a routine that has finished
TickOutcomeFinishedIsNoProgress ==
    IF ~end_state /\ ~lock_error_state /\ ~gen_done
    THEN "resume"
    ELSE "False"

\* BaseArbiter.tick: what the call does given the flags and the routine
TickOutcome ==
    IF ~end_state /\ ~lock_error_state
    THEN (IF gen_done THEN "StopIteration" ELSE "resume")
    ELSE "False"

\* -------------------------------------------------------- SystemUnderTest
\* SystemUnderTest.is_duplicate_lock: len(set(lock_wavelengths)) < len(...)
is_duplicate_lock ==
    Cardinality({ tuner[i].lock_wavelength : i \in Slices }) < num_slices

\* sorted(wavelength_with_index, key=...) compares a None lock wavelength
\* with another key as soon as the list has two items: TypeError
LaneOrderRaises ==
    num_slices >= 2 /\ \E i \in Slices : tuner[i].lock_wavelength = None

\* position of (lock_wavelength, index) of each slice in the stable sort
current_lane_order ==
    LET Key(i) == IF tuner[i].lock_wavelength = None THEN 0
                  ELSE tuner[i].lock_wavelength[1]
        Before(a, b) == Key(a) < Key(b) \/ (Key(a) = Key(b) /\ a < b)
    IN  [ k \in 1 .. num_slices |->
            Cardinality({ j \in Slices : Before(j, k - 1) }) ]

\* a check that rotates the target list itself: target[i:] + target[:i]
LaneOrderMatchesListRotation(orig_target_lane_order) ==
    LET n == Len(orig_target_lane_order)
    IN  \E i \in 0 .. (n - 1) :
            [ k \in 1 .. n |-> orig_target_lane_order[((k - 1 + i) % n) + 1] ]
                = current_lane_order

\* a check that accepts the target order only as it is given
LaneOrderMatchesUnrotated(orig_target_lane_order) ==
    orig_target_lane_order = current_lane_order

\* the loop of is_correct_lane_order over the rotations of a target order:
\* rotated[j] = (target[j] + i) % len(target), compared with the current
\* lane order (sort succeeded)
LaneOrderMatches(orig_target_lane_order) ==
    LET n == Len(orig_target_lane_order)
    IN  \E i \in 0 .. (n - 1) :
            [ k \in 1 .. n |-> (orig_target_lane_order[k] + i) % n ]
                = current_lane_order

\* SystemUnderTest.is_correct_lane_order (target order given)
is_correct_lane_order == LaneOrderMatches(target_lane_order[1])

\* a classification that runs the lane-order check without asking whether
\* a target order was given
ExitClassificationAlwaysChecksLaneOrder ==
    IF is_duplicate_lock
    THEN [ status |-> {EXIT_DUPLICATE_LOCK}, exc |-> "" ]
    ELSE IF lock_error_state
    THEN [ status |-> {EXIT_ZERO_LOCK}, exc |-> "" ]
    ELSE IF LaneOrderRaises \/ target_lane_order = None
    THEN [ status |-> {}, exc |-> "TypeError" ]
    ELSE IF ~is_correct_lane_order
    THEN [ status |-> {EXIT_WRONG_LANE_ORDER}, exc |-> "" ]
    ELSE [ status |-> {EXIT_SUCCESS}, exc |-> "" ]

\* the classification at the end of run_lock_sequence: the exit status
\* returned, or the exception raised on the way
ExitClassification ==
    IF is_duplicate_lock
    THEN [ status |-> {EXIT_DUPLICATE_LOCK}, exc |-> "" ]
    ELSE IF lock_error_state
    THEN [ status |-> {EXIT_ZERO_LOCK}, exc |-> "" ]
    ELSE IF target_lane_order # None
    THEN IF LaneOrderRaises
         THEN [ status |-> {}, exc |-> "TypeError" ]
         ELSE IF ~is_correct_lane_order
         THEN [ status |-> {EXIT_WRONG_LANE_ORDER}, exc |-> "" ]
         ELSE [ status |-> {EXIT_SUCCESS}, exc |-> "" ]
    ELSE [ status |-> {EXIT_SUCCESS}, exc |-> "" ]

\* target lane orders handed to the arbiter: ascending and descending
TargetChoices(n) ==
    { [ k \in 1 .. n |-> k - 1 ], [ k \in 1 .. n |-> n - k ] }

\* no OpticalWave object constructed yet; A and B are the driver's two
\* operands, out the latest result (absent = the empty tuple), single and
\* rest the two halves of the latest split by index
NoWaveCalc ==
    [ A |-> None, B |-> None, out |-> None, single |-> None, rest |-> None,
      equal |-> "", op |-> "", n |-> 0 ]

\* no instruction object constructed yet
NoInst ==
    [ op |-> "", slice_idx |-> 0, mode |-> "", select |-> 0, done |-> FALSE,
      stage_iter |-> "none", steps |-> 0 ]

\* no direct RxSlice call made yet: the number of calls, the latest call
\* (slice, operation, mode, select) and, per slice, the voltage code of the
\* latest successful lock since the hard reset (-1 = none)
SliceLogInit ==
    [ n |-> 0, slice_idx |-> 0, op |-> "", mode |-> "", select |-> 0,
      last_locked |-> [ i \in 0 .. (MaxSlices - 1) |-> -1 ] ]

\* the state a freshly built system is in, for the configuration chosen:
\* nothing plugged in, every tuner and the arbiter hard reset
Boot ==
    /\ laser_out = << >>
    /\ is_connected = [ i \in 0 .. (num_slices - 1) |-> FALSE ]
    /\ wave_in = [ i \in 0 .. (num_slices - 1) |-> << >> ]
    /\ wave_thru = [ i \in 0 .. (num_slices - 1) |-> << >> ]
    /\ curr_wavelength = [ i \in 0 .. (num_slices - 1) |-> rings[i].wavelength ]
    /\ tuner = [ i \in 0 .. (num_slices - 1) |-> TunerHardReset ]
    /\ memory = MemoryReset
    /\ end_state = FALSE
    /\ lock_error_state = FALSE
    /\ gen_pos = 0
    /\ gen_done = FALSE
    /\ instr_count = 0
    /\ run_pc = "idle"
    /\ exit_status = {}
    /\ exc = ""
    /\ last_tick = ""
    /\ n_props = 0
    /\ runs = 0
    /\ reticks = 0
    /\ slice_log = SliceLogInit
    /\ driver_inst = NoInst
    /\ wave_calc = NoWaveCalc
    /\ returned = << >>

\* state after construct_slices_and_arbiter and the boot-time hard reset
Init ==
    /\ num_slices \in 1 .. MaxSlices
    /\ rings \in { [ i \in 0 .. (num_slices - 1) |->
                       [ wavelength   |-> row[i],
                         fsr          |-> RingParams.fsr,
                         tuning_range |-> RingParams.tuning_range ] ] :
                   row \in RingRowChoices(num_slices) }
    /\ target_lane_order \in {None} \cup { <<p>> : p \in TargetChoices(num_slices) }
    /\ arbiter_cls \in
          IF num_slices <= MaxGenericSlices
          THEN { "SimpleArbiter", "GenericArbiter" }
          ELSE { "SimpleArbiter" }
    /\ Boot

Config == << num_slices, rings, target_lane_order, arbiter_cls >>
Hardware == << wave_in, wave_thru, curr_wavelength, tuner, memory >>

\* what the caller of run_lock_sequence has in hand once the call is over:
\* the laser grid it passed, the exit status returned or the exception
\* raised, and the lock wavelength it reads from every slice
RunResult ==
    [ laser           |-> laser_out,
      exit_status     |-> exit_status,
      exc             |-> exc,
      lock_wavelength |-> [ i \in Slices |-> tuner[i].lock_wavelength ] ]

\* a run_lock_sequence whose soft reset leaves the arbiter as the previous
\* run left it
RunLockSequencePrologKeepsArbiter(wavelengths) ==
    /\ runs' = runs + 1
    /\ tuner' = [ i \in Slices |-> TunerSoftReset(tuner[i]) ]
    /\ is_connected' = [ i \in Slices |-> TRUE ]
    /\ laser_out' = OpticalWaveFromList(wavelengths)
    /\ LET w == RowPassthrough(wave_in, wave_thru,
                                OpticalWaveFromList(wavelengths),
                                [ i \in Slices |-> TRUE ])
       IN  /\ wave_in' = w.wave_in
           /\ wave_thru' = w.wave_thru
    /\ instr_count' = 0
    /\ run_pc' = "tick"
    /\ exit_status' = {}
    /\ exc' = ""
    /\ last_tick' = ""
    /\ n_props' = 0
    /\ reticks' = 0
    /\ returned' = IF runs = 0 THEN returned ELSE Append(returned, RunResult)
    /\ UNCHANGED << Config, driver_inst, wave_calc, slice_log, curr_wavelength,
                    end_state, lock_error_state, gen_pos, gen_done, memory >>

\* run_lock_sequence up to the tick loop: soft reset of every slice and of
\* the arbiter, then hotplug_laser_grid (connect, turn on, passthrough)
RunLockSequenceProlog(wavelengths) ==
    /\ runs' = runs + 1
    /\ tuner' = [ i \in Slices |-> TunerSoftReset(tuner[i]) ]
    /\ end_state' = FALSE
    /\ lock_error_state' = FALSE
    /\ gen_pos' = 0
    /\ gen_done' = FALSE
    /\ memory' = MemoryReset
    /\ is_connected' = [ i \in Slices |-> TRUE ]
    /\ laser_out' = OpticalWaveFromList(wavelengths)
    /\ LET w == RowPassthrough(wave_in, wave_thru,
                                OpticalWaveFromList(wavelengths),
                                [ i \in Slices |-> TRUE ])
       IN  /\ wave_in' = w.wave_in
           /\ wave_thru' = w.wave_thru
    /\ instr_count' = 0
    /\ run_pc' = "tick"
    /\ exit_status' = {}
    /\ exc' = ""
    /\ last_tick' = ""
    /\ n_props' = 0
    /\ reticks' = 0
    /\ returned' = IF runs = 0 THEN returned ELSE Append(returned, RunResult)
    /\ UNCHANGED << Config, driver_inst, wave_calc, slice_log, curr_wavelength >>

\* the first run_lock_sequence call on a freshly built system
RunLockSequenceStart(wavelengths) ==
    /\ run_pc = "idle"
    /\ RunLockSequenceProlog(wavelengths)

\* "while self.arbiter.tick()": BaseArbiter.tick up to the resume
ArbiterTick ==
    /\ run_pc = "tick"
    /\ \/ /\ TickOutcome = "False"
          /\ run_pc' = "classify"
          /\ last_tick' = "False"
          /\ UNCHANGED << exc, gen_done >>
       \/ /\ TickOutcome = "StopIteration"
          /\ run_pc' = "raised"
          /\ exc' = "StopIteration"
          /\ last_tick' = "StopIteration"
          /\ UNCHANGED gen_done
       \/ /\ TickOutcome = "resume"
          /\ arbiter_cls = "GenericArbiter" => gen_pos < MaxTicks
          /\ run_pc' = "algo"
          /\ UNCHANGED << exc, last_tick, gen_done >>
    /\ UNCHANGED << Config, returned, driver_inst, wave_calc, slice_log, Hardware, laser_out, is_connected, end_state,
                    lock_error_state, gen_pos, instr_count, exit_status,
                    n_props, runs, reticks >>

\* the hardware and memory state left by the instructions of a step
SetHardware(h) ==
    /\ tuner' = h.tuner
    /\ wave_in' = h.wave_in
    /\ wave_thru' = h.wave_thru
    /\ curr_wavelength' = h.curr_wavelength
    /\ memory' = h.memory

\* the routine suspends at a yield: next() returns and tick() returns True
Yield ==
    /\ gen_pos' = gen_pos + 1
    /\ run_pc' = "propagate"
    /\ last_tick' = "True"
    /\ UNCHANGED << exc, gen_done >>

\* an exception leaves the routine, tick() and run_lock_sequence
Raise(name) ==
    /\ gen_done' = TRUE
    /\ run_pc' = "raised"
    /\ exc' = name
    /\ last_tick' = name
    /\ UNCHANGED gen_pos

\* the instruction has run and left h: the algorithm goes on, unless the
\* instruction raised
InstReturns(h) ==
    /\ SetHardware(h)
    /\ IF h.raised = ""
       THEN UNCHANGED << run_pc, exc, last_tick, gen_done, gen_pos >>
       ELSE Raise(h.raised)

\* an algorithm issues one instruction and runs it to completion
IssueInst(inst) ==
    /\ run_pc = "algo"
    /\ arbiter_cls = "GenericArbiter"
    /\ instr_count < MaxInstr
    /\ instr_count' = instr_count + 1
    /\ InstReturns(RunInst(HwState, inst))
    /\ UNCHANGED << Config, returned, driver_inst, wave_calc, slice_log, laser_out, is_connected, end_state,
                    lock_error_state, exit_status, n_props, runs, reticks >>

AlgoSearch(i) ==
    IssueInst([ op |-> "Search", slice_idx |-> i, mode |-> "", select |-> 0 ])

AlgoLock(i, mode, select) ==
    IssueInst([ op |-> "Lock", slice_idx |-> i, mode |-> mode, select |-> select ])

AlgoUnlock(i) ==
    IssueInst([ op |-> "Unlock", slice_idx |-> i, mode |-> "", select |-> 0 ])

\* an algorithm sets end_state
AlgoSetEndState ==
    /\ run_pc = "algo"
    /\ arbiter_cls = "GenericArbiter"
    /\ ~end_state
    /\ end_state' = TRUE
    /\ UNCHANGED << Config, returned, driver_inst, wave_calc, slice_log, Hardware, laser_out, is_connected,
                    lock_error_state, gen_pos, gen_done, instr_count, run_pc,
                    exit_status, exc, last_tick, n_props, runs, reticks >>

\* an algorithm sets lock_error_state
AlgoSetLockErrorState ==
    /\ run_pc = "algo"
    /\ arbiter_cls = "GenericArbiter"
    /\ ~lock_error_state
    /\ lock_error_state' = TRUE
    /\ UNCHANGED << Config, returned, driver_inst, wave_calc, slice_log, Hardware, laser_out, is_connected, end_state,
                    gen_pos, gen_done, instr_count, run_pc, exit_status, exc,
                    last_tick, n_props, runs, reticks >>

\* an algorithm suspends
AlgoYield ==
    /\ run_pc = "algo"
    /\ arbiter_cls = "GenericArbiter"
    /\ Yield
    /\ UNCHANGED << Config, returned, driver_inst, wave_calc, slice_log, Hardware, laser_out, is_connected, end_state,
                    lock_error_state, instr_count, exit_status, n_props,
                    runs, reticks >>

\* an algorithm returns: next() raises StopIteration, which tick() re-raises
AlgoReturn ==
    /\ run_pc = "algo"
    /\ arbiter_cls = "GenericArbiter"
    /\ Raise("StopIteration")
    /\ UNCHANGED << Config, returned, driver_inst, wave_calc, slice_log, Hardware, laser_out, is_connected, end_state,
                    lock_error_state, instr_count, exit_status, n_props,
                    runs, reticks >>

\* a one-by-one algorithm that never flags a lock error and goes on to the
\* next slice after a failed lock
OneByOneStepIgnoresFailure(lock_sequence, select) ==
    /\ run_pc = "algo"
    /\ IF gen_pos < Len(lock_sequence)
       THEN LET rx_idx == lock_sequence[gen_pos + 1]
                h == LockInst(HwState, rx_idx, "least_significant", select)
            IN  /\ SetHardware(h)
                /\ instr_count' = instr_count + 1
                /\ IF h.raised # ""
                   THEN Raise(h.raised)
                   ELSE Yield
                /\ UNCHANGED << end_state, lock_error_state >>
       ELSE IF gen_pos = Len(lock_sequence)
       THEN /\ end_state' = TRUE
            /\ Yield
            /\ UNCHANGED << Hardware, lock_error_state, instr_count >>
       ELSE /\ Raise("StopIteration")
            /\ UNCHANGED << Hardware, end_state, lock_error_state, instr_count >>
    /\ UNCHANGED << Config, returned, driver_inst, wave_calc, slice_log, laser_out,
                    is_connected, exit_status, n_props, runs, reticks >>

\* an algorithm that issues LockInst(rx_idx, "least_significant", select)
\* on the slices of a lock sequence, one per resume, flags a lock error
\* when the slice did not lock, and sets end_state after the sequence:
\* the step from one suspension point to the next
OneByOneStep(lock_sequence, select) ==
    /\ run_pc = "algo"
    /\ IF gen_pos < Len(lock_sequence)
       THEN LET rx_idx == lock_sequence[gen_pos + 1]
                h == LockInst(HwState, rx_idx, "least_significant", select)
            IN  /\ SetHardware(h)
                /\ instr_count' = instr_count + 1
                /\ IF h.raised # ""
                   THEN Raise(h.raised) /\ UNCHANGED lock_error_state
                   ELSE /\ lock_error_state' =
                             ~(check_lock_done(h, {rx_idx})
                                 /\ ~check_zero_lock(h, {rx_idx}))
                        /\ Yield
                /\ UNCHANGED end_state
       ELSE IF gen_pos = Len(lock_sequence)
       THEN /\ end_state' = TRUE
            /\ Yield
            /\ UNCHANGED << Hardware, lock_error_state, instr_count >>
       ELSE /\ Raise("StopIteration")
            /\ UNCHANGED << Hardware, end_state, lock_error_state, instr_count >>
    /\ UNCHANGED << Config, returned, driver_inst, wave_calc, slice_log, laser_out, is_connected, exit_status,
                    n_props, runs, reticks >>

\* SimpleArbiter.algorithm from one suspension point to the next
SimpleAlgorithmStep ==
    /\ arbiter_cls = "SimpleArbiter"
    /\ OneByOneStep(slice_lock_sequence, 0)

\* the loop body: self.ring_wdm_row.propagate_wave()
Propagate ==
    /\ run_pc = "propagate"
    /\ LET w == RowPropagate(wave_in, wave_thru, laser_out, is_connected)
       IN  /\ wave_in' = w.wave_in
           /\ wave_thru' = w.wave_thru
    /\ n_props' = n_props + 1
    /\ run_pc' = "tick"
    /\ UNCHANGED << Config, returned, driver_inst, wave_calc, slice_log, laser_out, is_connected, curr_wavelength, tuner,
                    memory, end_state, lock_error_state, gen_pos, gen_done,
                    instr_count, exit_status, exc, last_tick, runs, reticks >>

\* the exit classification after the loop
Classify ==
    /\ run_pc = "classify"
    /\ exit_status' = ExitClassification.status
    /\ exc' = ExitClassification.exc
    /\ run_pc' = IF ExitClassification.exc = "" THEN "done" ELSE "raised"
    /\ UNCHANGED << Config, returned, driver_inst, wave_calc, slice_log, Hardware, laser_out, is_connected, end_state,
                    lock_error_state, gen_pos, gen_done, instr_count,
                    last_tick, n_props, runs, reticks >>

\* the driver calls arbiter.tick() once more after run_lock_sequence ended
DriverTick ==
    /\ run_pc \in { "done", "raised" }
    /\ reticks < MaxRetick
    /\ TickOutcome # "resume"
    /\ reticks' = reticks + 1
    /\ last_tick' = TickOutcome
    /\ UNCHANGED << Config, returned, driver_inst, wave_calc, slice_log, Hardware, laser_out, is_connected, end_state,
                    lock_error_state, gen_pos, gen_done, instr_count, run_pc,
                    exit_status, exc, n_props, runs >>

Next ==
    \/ \E wavelengths \in LaserChoices : RunLockSequenceStart(wavelengths)
    \/ ArbiterTick
    \/ \E i \in Slices : AlgoSearch(i)
    \/ \E i \in Slices, mode \in LockModes, select \in 0 .. MaxSelect :
           AlgoLock(i, mode, select)
    \/ \E i \in Slices : AlgoUnlock(i)
    \/ AlgoSetEndState
    \/ AlgoSetLockErrorState
    \/ AlgoYield
    \/ AlgoReturn
    \/ SimpleAlgorithmStep
    \/ Propagate
    \/ Classify
    \/ DriverTick

Spec == Init /\ [][Next]_vars

\* SimpleArbiter's routine has been resumed by next() and has not reached
\* its next yield: every branch of OneByOneStep can be taken from here, so
\* this is when SimpleAlgorithmStep is enabled
AlgorithmResumed == run_pc = "algo" /\ arbiter_cls = "SimpleArbiter"

\* run_lock_sequence is sequential code: once called, its next statement
\* (the tick, the resumed algorithm, the propagation, the classification)
\* is executed.  The fairness of the algorithm step is written with its
\* enabling condition spelled out.
FairSpec ==
    /\ Spec
    /\ WF_vars(ArbiterTick)
    /\ WF_vars(Propagate)
    /\ WF_vars(Classify)
    /\ (<>[]AlgorithmResumed => []<><<SimpleAlgorithmStep>>_vars)

\* ------------------------------------------------ direct RxSlice calls
\* A test driver builds a system, plugs laser grids in and calls the
\* methods of its slices itself, without running an arbiter.

\* laser wavelength lists the driver plugs in: empty, out of every sweep
\* window, one, three and two wavelengths in range
SliceLaserChoices == { << >>, <<16>>, <<12>>, <<14, 12, 10>>, <<11, 13, 16>> }

ArbiterVars ==
    << memory, end_state, lock_error_state, gen_pos, gen_done, instr_count,
       run_pc, exit_status, exc, last_tick, n_props, runs, reticks >>

\* the log after one more call; code is the voltage code of a successful
\* lock, if the call was one
SliceLogCall(i, op, mode, select, code) ==
    [ n |-> slice_log.n + 1, slice_idx |-> i, op |-> op, mode |-> mode,
      select |-> select,
      last_locked |-> IF code = None THEN slice_log.last_locked
                      ELSE [ slice_log.last_locked EXCEPT ![i] = code[1] ] ]

SliceInit ==
    /\ Init
    /\ num_slices = 1
    /\ target_lane_order = None
    /\ arbiter_cls = "SimpleArbiter"

SliceCallEnabled == run_pc = "idle" /\ slice_log.n < MaxCalls

\* SystemUnderTest.hotplug_laser_grid
HotplugLaserGrid(wavelengths) ==
    /\ SliceCallEnabled
    /\ is_connected' = [ i \in Slices |-> TRUE ]
    /\ laser_out' = OpticalWaveFromList(wavelengths)
    /\ LET w == RowPassthrough(wave_in, wave_thru,
                                OpticalWaveFromList(wavelengths),
                                [ i \in Slices |-> TRUE ])
       IN  /\ wave_in' = w.wave_in
           /\ wave_thru' = w.wave_thru
    /\ slice_log' = SliceLogCall(0, "hotplug", "", 0, None)
    /\ UNCHANGED << Config, returned, driver_inst, wave_calc, tuner, curr_wavelength, ArbiterVars >>

\* RxSlice.search_lock on slice i
RxSliceSearchLock(i) ==
    /\ SliceCallEnabled
    /\ tuner' = [ tuner EXCEPT ![i] = search_lock(@, rings[i], wave_in[i]) ]
    /\ slice_log' = SliceLogCall(i, "search_lock", "", 0, None)
    /\ UNCHANGED << Config, returned, driver_inst, wave_calc, laser_out, is_connected, wave_in, wave_thru,
                    curr_wavelength, ArbiterVars >>

\* the entry acquire_lock picks, if any, names a wave index that the IN
\* wave no longer has: "ring.ports['in'].wave[wave_idx]" raises IndexError
AcquireLockRaises(t, waves, mode, select) ==
    /\ t.search_status = SEARCH_DONE
    /\ do_lock(mode, NearestDefault(t, mode), select) # None
    /\ do_lock(mode, NearestDefault(t, mode), select)[1] >= Len(waves)

\* the tuner left behind by that IndexError: the assignments made before it
AcquireLockPartial(t, mode, select) ==
    LET t1 == NearestDefault(t, mode)
        lock_table_entry == do_lock(mode, t1, select)
    IN  [ t1 EXCEPT !.lock_status    = LOCK_DONE,
                    !.lock_data      = lock_table_entry[1] :> lock_table_entry[2],
                    !.lock_code_prev = t1.lock_code,
                    !.lock_code      = lock_table_entry[2] ]

\* RxSlice.acquire_lock on slice i: Tuner.acquire_lock, which tunes the ring
\* through acquire_lock_by_wave_idx when it finds an entry
RxSliceAcquireLock(i, mode, select) ==
    /\ SliceCallEnabled
    /\ IF AcquireLockRaises(tuner[i], wave_in[i], mode, select)
       THEN /\ tuner' = [ tuner EXCEPT ![i] = AcquireLockPartial(@, mode, select) ]
            /\ run_pc' = "raised"
            /\ exc' = "IndexError"
            /\ slice_log' = SliceLogCall(i, "acquire_lock", mode, select, None)
            /\ UNCHANGED << wave_thru, curr_wavelength >>
       ELSE LET locked == acquire_lock(tuner[i], wave_in[i], mode, select)
            IN  /\ tuner' = [ tuner EXCEPT ![i] = locked.tuner ]
                /\ IF locked.tune = None
                   THEN UNCHANGED << wave_thru, curr_wavelength >>
                   ELSE /\ wave_thru' =
                             [ wave_thru EXCEPT ![i] =
                                 filter_by_wave_idx(wave_in[i], locked.tune[1], TRUE) ]
                        /\ curr_wavelength' =
                             [ curr_wavelength EXCEPT ![i] =
                                 wave_in[i][locked.tune[1] + 1] ]
                /\ slice_log' =
                     SliceLogCall(i, "acquire_lock", mode, select,
                                  IF locked.tune = None THEN None
                                  ELSE << locked.tuner.lock_code >>)
                /\ UNCHANGED << run_pc, exc >>
    /\ UNCHANGED << Config, returned, driver_inst, wave_calc, laser_out, is_connected, wave_in, memory,
                    end_state, lock_error_state, gen_pos, gen_done,
                    instr_count, exit_status, last_tick, n_props, runs,
                    reticks >>

\* RxSlice.release_lock on slice i: Tuner.release_lock, which detunes the
\* ring through RingRxWDM.release_lock
RxSliceReleaseLock(i) ==
    /\ SliceCallEnabled
    /\ LET new_in == PortIn(i, wave_in, wave_thru, laser_out, is_connected)
       IN  /\ wave_in' = [ wave_in EXCEPT ![i] = new_in ]
           /\ wave_thru' = [ wave_thru EXCEPT ![i] = new_in ]
    /\ tuner' = [ tuner EXCEPT ![i] = release_lock(@) ]
    /\ curr_wavelength' = [ curr_wavelength EXCEPT ![i] = rings[i].wavelength ]
    /\ slice_log' = SliceLogCall(i, "release_lock", "", 0, None)
    /\ UNCHANGED << Config, returned, driver_inst, wave_calc, laser_out, is_connected, ArbiterVars >>

\* RxSlice.soft_reset on slice i
RxSliceSoftReset(i) ==
    /\ SliceCallEnabled
    /\ tuner' = [ tuner EXCEPT ![i] = TunerSoftReset(@) ]
    /\ slice_log' = SliceLogCall(i, "soft_reset", "", 0, None)
    /\ UNCHANGED << Config, returned, driver_inst, wave_calc, laser_out, is_connected, wave_in, wave_thru,
                    curr_wavelength, ArbiterVars >>

SliceNext ==
    \/ \E wavelengths \in SliceLaserChoices : HotplugLaserGrid(wavelengths)
    \/ \E i \in Slices : RxSliceSearchLock(i)
    \/ \E i \in Slices, mode \in LockModes, select \in 0 .. MaxCallSelect :
           RxSliceAcquireLock(i, mode, select)
    \/ \E i \in Slices : RxSliceReleaseLock(i)
    \/ \E i \in Slices : RxSliceSoftReset(i)

SliceSpec == SliceInit /\ [][SliceNext]_vars

\* ------------------------------------------------------- system resets
\* A driver builds a system, calls run_lock_sequence once and then resets
\* the system, softly or hard, any number of times.

\* BaseArbiter.hard_reset and BaseArbiter.soft_reset have the same body:
\* both flags cleared, a new generator from algorithm(), memory.reset()
ArbiterReset ==
    /\ end_state' = FALSE
    /\ lock_error_state' = FALSE
    /\ gen_pos' = 0
    /\ gen_done' = FALSE
    /\ memory' = MemoryReset

ResetUnchanged ==
    << Config, returned, driver_inst, wave_calc, slice_log, laser_out,
       is_connected, wave_in, wave_thru, curr_wavelength, instr_count,
       exit_status, exc, last_tick, n_props, runs, reticks >>

\* SystemUnderTest.hard_reset called by the driver
SystemHardReset ==
    /\ run_pc \in { "idle", "done", "raised" }
    /\ tuner' = [ i \in Slices |-> TunerHardReset ]
    /\ ArbiterReset
    /\ run_pc' = "idle"
    /\ UNCHANGED ResetUnchanged

\* SystemUnderTest.soft_reset called by the driver
SystemSoftReset ==
    /\ run_pc \in { "idle", "done", "raised" }
    /\ tuner' = [ i \in Slices |-> TunerSoftReset(tuner[i]) ]
    /\ ArbiterReset
    /\ run_pc' = "idle"
    /\ UNCHANGED ResetUnchanged

\* the driver's only run_lock_sequence call
ResetRunOnce(wavelengths) ==
    /\ runs = 0
    /\ RunLockSequenceStart(wavelengths)

ResetNext ==
    \/ \E wavelengths \in LaserChoices : ResetRunOnce(wavelengths)
    \/ ArbiterTick
    \/ \E i \in Slices : AlgoSearch(i)
    \/ \E i \in Slices, mode \in LockModes, select \in 0 .. MaxSelect :
           AlgoLock(i, mode, select)
    \/ \E i \in Slices : AlgoUnlock(i)
    \/ AlgoSetEndState
    \/ AlgoSetLockErrorState
    \/ AlgoYield
    \/ AlgoReturn
    \/ SimpleAlgorithmStep
    \/ Propagate
    \/ Classify
    \/ SystemHardReset
    \/ SystemSoftReset

ResetSpec == Init /\ [][ResetNext]_vars

\* ------------------------------------------------ voltage code quantization
\* The direct calls on one slice whose tuning range does not divide the DAC
\* full scale, so that a wavelength inside a window has a quotient
\* (wavelength - start) / width * VDAC_FS that is not an integer.

CodeRingParams == [ fsr |-> 8, tuning_range |-> 3 ]

CodeLaserChoices == { << >>, <<11>>, <<12>>, <<13, 10>>, <<19, 12, 11>> }

CodeInit ==
    /\ num_slices = 1
    /\ rings = [ i \in 0 .. 0 |->
                   [ wavelength   |-> 10,
                     fsr          |-> CodeRingParams.fsr,
                     tuning_range |-> CodeRingParams.tuning_range ] ]
    /\ target_lane_order = None
    /\ arbiter_cls = "SimpleArbiter"
    /\ Boot

CodeNext ==
    \/ \E wavelengths \in CodeLaserChoices : HotplugLaserGrid(wavelengths)
    \/ \E i \in Slices : RxSliceSearchLock(i)
    \/ \E i \in Slices, mode \in LockModes, select \in 0 .. MaxCallSelect :
           RxSliceAcquireLock(i, mode, select)

CodeSpec == CodeInit /\ [][CodeNext]_vars

\* ------------------------------------------- instructions run directly
\* A test driver builds a system, plugs laser grids in, constructs
\* instruction objects on its arbiter and steps them itself, propagates the
\* row and soft-resets slices; an exception ends the driver.

\* slice indices handed to an instruction constructor: -1 .. N
InstIndexChoices == -1 .. num_slices

\* lock modes handed to LockInst: two of the policies and a name outside
\* the four
InstModeChoices == { "least_significant", "most_significant", "invalid" }

\* select values handed to LockInst
InstSelectChoices == -1 .. MaxInstSelect

\* laser wavelength lists of this driver: empty, one in range, three in range
InstLaserChoices == { << >>, <<12>>, <<14, 12, 10>> }

InstInit ==
    /\ Init
    /\ num_slices <= MaxInstSlices
    /\ target_lane_order = None
    /\ arbiter_cls = "SimpleArbiter"

InstCallEnabled == run_pc = "idle" /\ slice_log.n < MaxInstCalls

InstUnchanged ==
    << Config, returned, wave_calc, laser_out, is_connected, end_state, lock_error_state, gen_pos,
       gen_done, instr_count, exit_status, last_tick, n_props, runs, reticks >>

\* SystemUnderTest.hotplug_laser_grid called by this driver
InstHotplug(wavelengths) ==
    /\ InstCallEnabled
    /\ HotplugLaserGrid(wavelengths)

\* a constructor that takes slice_idx as a list index, negative ones
\* counting from the end, and raises only when rx_slices[slice_idx] would
InstConstructListIndex(op, slice_idx, mode, select) ==
    /\ InstCallEnabled
    /\ IF slice_idx \in (0 - num_slices) .. (num_slices - 1)
       THEN /\ driver_inst' =
                 [ op |-> op, slice_idx |-> slice_idx % num_slices,
                   mode |-> mode, select |-> select, done |-> FALSE,
                   stage_iter |-> "created", steps |-> 0 ]
            /\ UNCHANGED << run_pc, exc >>
       ELSE /\ run_pc' = "raised"
            /\ exc' = "IndexError"
            /\ UNCHANGED driver_inst
    /\ slice_log' = SliceLogCall(slice_idx, "construct", mode, select, None)
    /\ UNCHANGED << Hardware, InstUnchanged >>

\* SearchInst / LockInst / UnlockInst (arbiter, slice_idx[, mode, select]):
\* InstTemplate.__init__ creates the stage generator and clears done, then
\* the constructor raises ValueError unless slice_idx is in range(N)
InstConstruct(op, slice_idx, mode, select) ==
    /\ InstCallEnabled
    /\ IF slice_idx \in 0 .. (num_slices - 1)
       THEN /\ driver_inst' =
                 [ op |-> op, slice_idx |-> slice_idx, mode |-> mode,
                   select |-> select, done |-> FALSE,
                   stage_iter |-> "created", steps |-> 0 ]
            /\ UNCHANGED << run_pc, exc >>
       ELSE /\ run_pc' = "raised"
            /\ exc' = "ValueError"
            /\ UNCHANGED driver_inst
    /\ slice_log' = SliceLogCall(slice_idx, "construct", mode, select, None)
    /\ UNCHANGED << Hardware, InstUnchanged >>

\* next(self._stage_iter) on a generator that has not started: the body of
\* stage() up to its yield, or up to the exception that leaves it
InstNext ==
    LET h == RunInst(HwState, driver_inst)
    IN  /\ SetHardware(h)
        /\ IF h.raised = ""
           THEN /\ driver_inst' = [ driver_inst EXCEPT !.done = TRUE,
                                                       !.stage_iter = "suspended",
                                                       !.steps = @ + 1 ]
                /\ UNCHANGED << run_pc, exc >>
           ELSE /\ driver_inst' = [ driver_inst EXCEPT !.stage_iter = "finished",
                                                       !.steps = @ + 1 ]
                /\ run_pc' = "raised"
                /\ exc' = h.raised

\* InstTemplate.run_step: "if self.done is False: next(self._stage_iter)"
InstRunStep ==
    /\ InstCallEnabled
    /\ driver_inst.stage_iter # "none"
    /\ IF driver_inst.done = FALSE
       THEN InstNext
       ELSE UNCHANGED << Hardware, driver_inst, run_pc, exc >>
    /\ slice_log' = SliceLogCall(driver_inst.slice_idx, "run_step", "", 0, None)
    /\ UNCHANGED InstUnchanged

\* InstTemplate.run: "while not self.done: self.run_step()"; the first
\* run_step either sets done or raises
InstRun ==
    /\ InstCallEnabled
    /\ driver_inst.stage_iter # "none"
    /\ IF ~driver_inst.done
       THEN InstNext
       ELSE UNCHANGED << Hardware, driver_inst, run_pc, exc >>
    /\ slice_log' = SliceLogCall(driver_inst.slice_idx, "run", "", 0, None)
    /\ UNCHANGED InstUnchanged

\* RingRow.propagate_wave called by this driver
InstPropagate ==
    /\ InstCallEnabled
    /\ LET w == RowPropagate(wave_in, wave_thru, laser_out, is_connected)
       IN  /\ wave_in' = w.wave_in
           /\ wave_thru' = w.wave_thru
    /\ slice_log' = SliceLogCall(0, "propagate", "", 0, None)
    /\ UNCHANGED << curr_wavelength, tuner, memory, driver_inst, run_pc, exc,
                    InstUnchanged >>

\* RxSlice.soft_reset called by this driver
InstSoftReset(i) ==
    /\ InstCallEnabled
    /\ RxSliceSoftReset(i)

InstSpecNext ==
    \/ \E wavelengths \in InstLaserChoices : InstHotplug(wavelengths)
    \/ \E i \in InstIndexChoices : InstConstruct("Search", i, "", 0)
    \/ \E i \in InstIndexChoices, mode \in InstModeChoices,
           select \in InstSelectChoices : InstConstruct("Lock", i, mode, select)
    \/ \E i \in InstIndexChoices : InstConstruct("Unlock", i, "", 0)
    \/ InstRunStep
    \/ InstRun
    \/ InstPropagate
    \/ \E i \in Slices : InstSoftReset(i)

InstSpec == InstInit /\ [][InstSpecNext]_vars

\* ------------------------------------------------- OpticalWave algebra
\* A test driver constructs OpticalWave objects from floats, sets and lists
\* and applies the operators and filters to them, feeding results back as
\* operands.

\* the wavelengths the driver uses
WaveValues == { 10, 12, 14 }

\* lists of up to MaxWaveLen wavelengths, repeated values included
WaveLists == UNION { [ 1 .. k -> WaveValues ] : k \in 0 .. MaxWaveLen }

WaveSlots == { "A", "B" }

WaveUnchanged ==
    << Config, returned, slice_log, driver_inst, laser_out, is_connected, wave_in,
       wave_thru, curr_wavelength, tuner, ArbiterVars >>

WaveCallEnabled == run_pc = "idle" /\ wave_calc.n < MaxWaveOps

\* the driver's record after a call that binds operand slot to wave
WaveBind(slot, wave, op) ==
    IF slot = "A"
    THEN [ wave_calc EXCEPT !.A = <<wave>>, !.op = op, !.n = @ + 1 ]
    ELSE [ wave_calc EXCEPT !.B = <<wave>>, !.op = op, !.n = @ + 1 ]

\* OpticalWave(float)
WaveConstructFloat(slot, wavelength) ==
    /\ WaveCallEnabled
    /\ wave_calc' = WaveBind(slot, OpticalWaveFromList(<<wavelength>>), "float")
    /\ UNCHANGED WaveUnchanged

\* OpticalWave(set)
WaveConstructSet(slot, wavelengths) ==
    /\ WaveCallEnabled
    /\ wave_calc' = WaveBind(slot, OpticalWaveFromSet(wavelengths), "set")
    /\ UNCHANGED WaveUnchanged

\* OpticalWave(list)
WaveConstructList(slot, wavelengths) ==
    /\ WaveCallEnabled
    /\ wave_calc' = WaveBind(slot, OpticalWaveFromList(wavelengths), "list")
    /\ UNCHANGED WaveUnchanged

\* out = A + B
WaveAdd ==
    /\ WaveCallEnabled
    /\ wave_calc.A # None /\ wave_calc.B # None
    /\ wave_calc' = [ wave_calc EXCEPT
                        !.out = << OpticalWaveAdd(wave_calc.A[1], wave_calc.B[1]) >>,
                        !.op = "add", !.n = @ + 1 ]
    /\ UNCHANGED WaveUnchanged

\* out = A - B
WaveSub ==
    /\ WaveCallEnabled
    /\ wave_calc.A # None /\ wave_calc.B # None
    /\ wave_calc' = [ wave_calc EXCEPT
                        !.out = << OpticalWaveSub(wave_calc.A[1], wave_calc.B[1]) >>,
                        !.op = "sub", !.n = @ + 1 ]
    /\ UNCHANGED WaveUnchanged

\* equal = (A == B)
WaveCompare ==
    /\ WaveCallEnabled
    /\ wave_calc.A # None /\ wave_calc.B # None
    /\ wave_calc' = [ wave_calc EXCEPT
                        !.equal = IF OpticalWaveEq(wave_calc.A[1], wave_calc.B[1])
                                  THEN "True" ELSE "False",
                        !.op = "eq", !.n = @ + 1 ]
    /\ UNCHANGED WaveUnchanged

\* out = A.filter_by_wavelength(wavelength, invert)
WaveFilterByWavelength(wavelength, invert) ==
    /\ WaveCallEnabled
    /\ wave_calc.A # None
    /\ wave_calc' = [ wave_calc EXCEPT
                        !.out = << filter_by_wavelength(wave_calc.A[1],
                                                        wavelength, invert) >>,
                        !.op = "filter_by_wavelength", !.n = @ + 1 ]
    /\ UNCHANGED WaveUnchanged

\* out = A.filter_by_wavelength_range(wavelength_min, wavelength_max)
WaveFilterByWavelengthRange(wavelength_min, wavelength_max) ==
    /\ WaveCallEnabled
    /\ wave_calc.A # None
    /\ wave_calc' = [ wave_calc EXCEPT
                        !.out = << filter_by_wavelength_range(wave_calc.A[1],
                                       wavelength_min, wavelength_max) >>,
                        !.op = "filter_by_wavelength_range", !.n = @ + 1 ]
    /\ UNCHANGED WaveUnchanged

\* single = A.filter_by_wave_idx(wave_idx, invert=False),
\* rest = A.filter_by_wave_idx(wave_idx, invert=True), out = single + rest,
\* for an index A has
WaveSplitByWaveIdx(wave_idx) ==
    /\ WaveCallEnabled
    /\ wave_calc.A # None
    /\ wave_idx < Len(wave_calc.A[1])
    /\ LET single == filter_by_wave_idx(wave_calc.A[1], wave_idx, FALSE)
           rest   == filter_by_wave_idx(wave_calc.A[1], wave_idx, TRUE)
       IN  wave_calc' = [ wave_calc EXCEPT
                            !.single = <<single>>,
                            !.rest = <<rest>>,
                            !.out = << OpticalWaveAdd(single, rest) >>,
                            !.op = "filter_by_wave_idx", !.n = @ + 1 ]
    /\ UNCHANGED WaveUnchanged

\* the driver takes the latest result as operand slot
WaveFeed(slot) ==
    /\ WaveCallEnabled
    /\ wave_calc.out # None
    /\ wave_calc' = WaveBind(slot, wave_calc.out[1], "feed")
    /\ UNCHANGED WaveUnchanged

WaveInit ==
    /\ Init
    /\ num_slices = 1
    /\ rings[0].wavelength = 10
    /\ target_lane_order = None
    /\ arbiter_cls = "SimpleArbiter"

WaveNext ==
    \/ \E slot \in WaveSlots, wavelength \in WaveValues :
           WaveConstructFloat(slot, wavelength)
    \/ \E slot \in WaveSlots, wavelengths \in SUBSET WaveValues :
           WaveConstructSet(slot, wavelengths)
    \/ \E slot \in WaveSlots, wavelengths \in WaveLists :
           WaveConstructList(slot, wavelengths)
    \/ WaveAdd
    \/ WaveSub
    \/ WaveCompare
    \/ \E wavelength \in WaveValues, invert \in BOOLEAN :
           WaveFilterByWavelength(wavelength, invert)
    \/ \E wavelength_min, wavelength_max \in WaveValues :
           WaveFilterByWavelengthRange(wavelength_min, wavelength_max)
    \/ \E wave_idx \in 0 .. (MaxWaveLen - 1) : WaveSplitByWaveIdx(wave_idx)
    \/ \E slot \in WaveSlots : WaveFeed(slot)

WaveSpec == WaveInit /\ [][WaveNext]_vars

\* ------------------------------------------------------------------ claims
\* two slices hold equal lock_wavelength values (None included)
EqualLockWavelengths ==
    \E i, j \in Slices : i # j /\ tuner[i].lock_wavelength = tuner[j].lock_wavelength

AllLocked == \A i \in Slices : tuner[i].lock_status = LOCK_DONE

TerminalFlag == end_state \/ lock_error_state

\* C1 (as claimed): a run whose tick loop has ended is classified in strict
\* priority: DUPLICATE_LOCK (2) whenever two slices hold equal
\* lock_wavelength, else ZERO_LOCK (1) if lock_error_state is set, else
\* WRONG_LANE_ORDER (3) if a target lane order was given and the lane check
\* fails, else SUCCESS (0).
C1_PriorityClassification ==
    (run_pc = "done" \/ (run_pc = "raised" /\ exc = "TypeError")) =>
        /\ run_pc = "done"
        /\ exit_status =
              IF EqualLockWavelengths THEN {EXIT_DUPLICATE_LOCK}
              ELSE IF lock_error_state THEN {EXIT_ZERO_LOCK}
              ELSE IF target_lane_order # None /\ ~is_correct_lane_order
              THEN {EXIT_WRONG_LANE_ORDER}
              ELSE {EXIT_SUCCESS}

\* C2 (as claimed): under the one-by-one arbiter, when the first slice that
\* fails to lock searched an empty IN wave, the run ends with
\* lock_error_state set and exit status ZERO_LOCK (1).
C2_EmptyInGivesZeroLock ==
    ( /\ arbiter_cls = "SimpleArbiter"
      /\ run_pc \in { "done", "raised" }
      /\ \E k \in Slices :
            /\ \A j \in 0 .. (k - 1) : tuner[j].lock_status = LOCK_DONE
            /\ tuner[k].lock_status # LOCK_DONE
            /\ tuner[k].search_status # SEARCH_NOT_STARTED
            /\ wave_in[k] = << >> )
    => ( lock_error_state /\ run_pc = "done" /\ exit_status = {EXIT_ZERO_LOCK} )

\* C3 (as claimed): a run that returns SUCCESS leaves every slice with
\* lock_status DONE and the lock wavelengths pairwise distinct.
C3_SuccessMeansAllLocked ==
    (run_pc = "done" /\ exit_status = {EXIT_SUCCESS}) =>
        (AllLocked /\ ~EqualLockWavelengths)

\* C4 (as claimed): no step of the algorithm between two suspension points
\* (any Search, Lock or Unlock instruction) changes any slice's IN wave.
C4_NoInChangeDuringArbiterStep ==
    [][ run_pc = "algo" => wave_in' = wave_in ]_vars

\* C5: right after every RingRow.propagate_wave call, each slice i > 0 has
\* as its IN wave the THRU wave of slice i-1.
C5_PropagationOrder ==
    (run_pc = "tick" /\ n_props > 0) =>
        \A i \in Slices : i > 0 => wave_in[i] = wave_thru[i - 1]

\* C5 witness: a propagation on a row of several rings after the first
\* slice has been tuned, so that the second slice sees fewer wavelengths
C5_Witness ==
    /\ run_pc = "tick"
    /\ n_props > 0
    /\ num_slices >= 2
    /\ tuner[0].lock_status = LOCK_DONE
    /\ wave_in[1] # wave_in[0]
    /\ wave_in[1] # << >>

\* C6: tick() with a terminal flag set returns "no progress" and changes
\* nothing of the routine, tuners, rings or memory; with no flag set (and a
\* routine that has not finished) it resumes the routine, which runs to its
\* next suspension point, exactly one, and tick reports progress; every
\* progress tick is followed by exactly one propagate_wave, which starts
\* only after the arbiter step has ended and leaves tuners, memory and the
\* routine alone.
C6_TickContract ==
    /\ [](run_pc \in { "tick", "classify", "done" } => n_props = gen_pos)
    /\ [](run_pc = "propagate" => n_props + 1 = gen_pos /\ last_tick = "True")
    /\ [][ /\ (run_pc = "tick" /\ TerminalFlag) =>
                 /\ run_pc' = "classify"
                 /\ last_tick' = "False"
                 /\ UNCHANGED << gen_pos, gen_done, Hardware >>
           /\ (run_pc = "tick" /\ ~TerminalFlag /\ ~gen_done) =>
                 /\ run_pc' = "algo"
                 /\ UNCHANGED << gen_pos, Hardware >>
           /\ (run_pc = "algo" /\ run_pc' = "algo") => gen_pos' = gen_pos
           /\ (run_pc = "algo" /\ run_pc' # "algo") =>
                 \/ run_pc' = "propagate" /\ last_tick' = "True"
                       /\ gen_pos' = gen_pos + 1
                 \/ run_pc' = "raised" /\ gen_done'
           /\ (run_pc' = "propagate") => run_pc \in { "algo", "propagate" }
           /\ (run_pc = "propagate") =>
                 /\ run_pc' = "tick"
                 /\ n_props' = n_props + 1
                 /\ UNCHANGED << gen_pos, gen_done, tuner, memory, end_state,
                                 lock_error_state >>
       ]_vars

\* C6 witness: a tick that reported "no progress" on lock_error_state after
\* two progress ticks, each followed by its propagation
C6_Witness ==
    /\ run_pc = "classify"
    /\ last_tick = "False"
    /\ lock_error_state
    /\ gen_pos = 2
    /\ n_props = 2

\* C7 (as claimed): when the algorithm has set end_state and no instruction
\* it issued afterwards has failed, the run ends by returning an exit
\* status, whether the routine suspends once more after setting the flag
\* or finishes right away.
C7_EndStateReturnsStatus ==
    ( /\ end_state
      /\ run_pc \in { "done", "raised" }
      /\ exc \notin { "KeyError", "ValueError" } )
    => ( run_pc = "done" /\ exit_status # {} )

\* C8: once a tick has returned with end_state or lock_error_state set, no
\* later step of the run clears a flag, resumes the routine or changes a
\* tuner or the arbiter memory, and exactly one more propagation happens:
\* the one of that tick.
C8_TerminalFlagsStick ==
    /\ []((TerminalFlag /\ run_pc \in { "tick", "classify", "done" }) =>
              n_props = gen_pos)
    /\ [][ (TerminalFlag /\ run_pc \in { "propagate", "tick", "classify", "done" }
              /\ runs' = runs) =>
             /\ end_state' = end_state
             /\ lock_error_state' = lock_error_state
             /\ run_pc' # "algo"
             /\ UNCHANGED << gen_pos, gen_done, tuner, memory >>
             /\ n_props' = IF run_pc = "propagate" THEN n_props + 1 ELSE n_props
       ]_vars

\* C8 witness: a run that has ended on lock_error_state set in its second
\* tick, after which the driver has called tick() once more
C8_Witness ==
    /\ run_pc = "done"
    /\ lock_error_state
    /\ gen_pos = 2
    /\ n_props = 2
    /\ reticks = 1

\* C9 (as claimed): a run that the algorithm ended by setting a terminal
\* flag and suspending returns one of the exit statuses 0, 1, 2, 3.
C9_OutcomeReturned ==
    ( /\ TerminalFlag
      /\ ~gen_done
      /\ run_pc \in { "done", "raised" } )
    => ( run_pc = "done" /\ \E status \in 0 .. 3 : exit_status = {status} )

\* C10: a tick() call on a routine that has finished, with neither flag
\* set, raises StopIteration (it does not report "no progress") and changes
\* no tuner, ring, memory or flag.
C10_TickAfterCompletionRaises ==
    [][ (reticks' = reticks + 1 /\ gen_done /\ ~TerminalFlag) =>
          /\ last_tick' = "StopIteration"
          /\ UNCHANGED << Hardware, end_state, lock_error_state, gen_pos,
                          gen_done >>
      ]_vars

\* C10 witness: the driver has called tick() on a finished routine with no
\* flag set, after a slice was locked
C10_Witness ==
    /\ reticks = 1
    /\ gen_done
    /\ ~TerminalFlag
    /\ last_tick = "StopIteration"
    /\ \E i \in Slices : tuner[i].lock_status = LOCK_DONE

\* --------------------------------------------------------- repeated runs
\* A driver calls run_lock_sequence again and again on one system built
\* with SimpleArbiter, plugging a laser grid in at each call.

\* the four-ring example row, in units of 0.01 nm.  Voltage codes are
\* computed exactly on these integers; the floating-point quotient of the
\* code can fall just below an exact integer (slice 1 of the example gets
\* code 247 for 248), which changes no status and no lock wavelength here.
ExampleRingParams == [ fsr |-> 896, tuning_range |-> 448 ]
ExampleRingWavelengths == << 129552, 130366, 130800, 131234 >>
ExampleLaserWavelengths == << 130352, 130576, 130800, 131024 >>

\* the example system after construction
ExampleInit ==
    /\ num_slices = Len(ExampleRingWavelengths)
    /\ rings = [ i \in 0 .. (Len(ExampleRingWavelengths) - 1) |->
                   [ wavelength   |-> ExampleRingWavelengths[i + 1],
                     fsr          |-> ExampleRingParams.fsr,
                     tuning_range |-> ExampleRingParams.tuning_range ] ]
    /\ target_lane_order \in
          { None, << [ k \in 1 .. Len(ExampleRingWavelengths) |-> k - 1 ] >> }
    /\ arbiter_cls = "SimpleArbiter"
    /\ Boot

RunsInit ==
    \/ Init /\ arbiter_cls = "SimpleArbiter"
    \/ ExampleInit

\* the laser grids the driver plugs into the row it has
RunsLaserChoices ==
    IF rings[0].fsr = ExampleRingParams.fsr
    THEN { ExampleLaserWavelengths }
    ELSE LaserChoices

\* run_lock_sequence called on a system that is idle: freshly built, or
\* left by an earlier call that returned or raised
RunLockSequenceCall(wavelengths) ==
    /\ run_pc \in { "idle", "done", "raised" }
    /\ runs < MaxRuns
    /\ RunLockSequenceProlog(wavelengths)

RunsNext ==
    \/ \E wavelengths \in RunsLaserChoices : RunLockSequenceCall(wavelengths)
    \/ ArbiterTick
    \/ SimpleAlgorithmStep
    \/ Propagate
    \/ Classify

RunsSpec == RunsInit /\ [][RunsNext]_vars

\* ------------------------------------------------------ lane-order runs
\* A row of identical rings runs under an arbiter that locks the slices one
\* by one, upstream first, each to a selection index of its choosing, so
\* that a run can end in every assignment of laser lines to slices.

\* the target lane orders of n slices: the permutations of 0 .. n - 1
LaneTargets(n) ==
    { p \in [ 1 .. n -> 0 .. (n - 1) ] :
        \A a, b \in 1 .. n : a # b => p[a] # p[b] }

\* one laser line per slice of the largest row, all inside one sweep window
LaneLaserWavelengths == [ k \in 1 .. MaxLaneSlices |-> 9 + k ]

LaneInit ==
    /\ num_slices \in 1 .. MaxLaneSlices
    /\ rings = [ i \in 0 .. (num_slices - 1) |->
                   [ wavelength   |-> 10,
                     fsr          |-> RingParams.fsr,
                     tuning_range |-> RingParams.tuning_range ] ]
    /\ target_lane_order \in { <<p>> : p \in LaneTargets(num_slices) }
    /\ arbiter_cls = "SelectArbiter"
    /\ Boot

\* the algorithm of that arbiter from one suspension point to the next
SelectAlgorithmStep(select) ==
    /\ arbiter_cls = "SelectArbiter"
    /\ gen_pos >= num_slices => select = 0
    /\ OneByOneStep([ k \in 1 .. num_slices |-> k - 1 ], select)

LaneNext ==
    \/ RunLockSequenceStart(LaneLaserWavelengths)
    \/ ArbiterTick
    \/ \E select \in 0 .. (MaxLaneSlices - 1) : SelectAlgorithmStep(select)
    \/ Propagate
    \/ Classify

LaneSpec == LaneInit /\ [][LaneNext]_vars

\* ------------------------------------------------- claims on RxSlice calls
\* the latest direct call was op on slice i
LastCall(i, op) == slice_log.op = op /\ slice_log.slice_idx = i

\* C11 (as claimed): search() with an empty IN wave sets search_status to
\* NO_WAVE and leaves search table and search data empty, and a lock() that
\* follows sets lock_status to LOCK_NO_WAVE.
C11_EmptyInSearchNoWave ==
    [][ \A i \in Slices :
          /\ (wave_in[i] = << >> /\ RxSliceSearchLock(i)) =>
                /\ tuner'[i].search_status = SEARCH_NO_WAVE
                /\ tuner'[i].search_table = {}
                /\ tuner'[i].search_data = EmptyDict
          /\ (/\ wave_in[i] = << >>
              /\ LastCall(i, "search_lock")
              /\ \E mode \in LockModes, select \in 0 .. MaxCallSelect :
                    RxSliceAcquireLock(i, mode, select)) =>
                tuner'[i].lock_status = LOCK_NO_WAVE ]_vars

\* lock() on slice i with mode and select, issued right after a search on
\* the same IN that ended DONE
LockAfterDoneSearch(i, mode, select) ==
    /\ LastCall(i, "search_lock")
    /\ tuner[i].search_status = SEARCH_DONE
    /\ RxSliceAcquireLock(i, mode, select)

\* C12: for every mode and every select below the number of searched
\* entries, a lock() issued right after a DONE search sets lock_status to
\* LOCK_DONE, records exactly one lock entry (wave index -> code) taken from
\* the search data, sets lock_wavelength to the IN wavelength at that wave
\* index and at once sets the ring's THRU to its IN without that wavelength.
C12_LockInRange ==
    [][ \A i \in Slices, mode \in LockModes, select \in 0 .. MaxCallSelect :
          (/\ LockAfterDoneSearch(i, mode, select)
           /\ select < DictLen(tuner[i].search_data)) =>
             /\ run_pc' = "idle"
             /\ tuner'[i].lock_status = LOCK_DONE
             /\ \E wave_idx \in DOMAIN tuner[i].search_data :
                  /\ tuner'[i].lock_data =
                        wave_idx :> tuner[i].search_data[wave_idx]
                  /\ tuner'[i].lock_wavelength = << wave_in[i][wave_idx + 1] >>
                  /\ ToSet(wave_thru'[i]) =
                        ToSet(wave_in[i]) \ { wave_in[i][wave_idx + 1] }
                  /\ curr_wavelength'[i] = wave_in[i][wave_idx + 1]
             /\ wave_thru'[i] = OpticalWaveFromSet(ToSet(wave_thru'[i]))
             /\ wave_in'[i] = wave_in[i] ]_vars

\* hotplug, search and a lock with most_significant, select 2 on three
\* searched entries
C12_Witness ==
    /\ slice_log.n = 3
    /\ slice_log.op = "acquire_lock"
    /\ slice_log.mode = "most_significant"
    /\ slice_log.select = 2
    /\ tuner[0].lock_status = LOCK_DONE
    /\ Len(wave_in[0]) = 3
    /\ Len(wave_thru[0]) = 2

\* C13 (as claimed): for every mode and every select at or beyond the number
\* of searched entries, a lock() while search_status is DONE changes none of
\* lock_status, lock data, lock_code, the previous lock code,
\* lock_wavelength, the ring's tuned wavelength and its THRU wave.
C13_LockOutOfRangeNoOp ==
    [][ \A i \in Slices, mode \in LockModes, select \in 0 .. MaxCallSelect :
          (/\ tuner[i].search_status = SEARCH_DONE
           /\ select >= DictLen(tuner[i].search_data)
           /\ RxSliceAcquireLock(i, mode, select)) =>
             /\ tuner'[i].lock_status = tuner[i].lock_status
             /\ tuner'[i].lock_data = tuner[i].lock_data
             /\ tuner'[i].lock_code = tuner[i].lock_code
             /\ tuner'[i].lock_code_prev = tuner[i].lock_code_prev
             /\ tuner'[i].lock_wavelength = tuner[i].lock_wavelength
             /\ curr_wavelength'[i] = curr_wavelength[i]
             /\ wave_thru'[i] = wave_thru[i] ]_vars

\* the lock status that mirrors a search status other than DONE
LockCounterpart(search_status) ==
    CASE search_status = SEARCH_NOT_STARTED  -> LOCK_NOT_STARTED
      [] search_status = SEARCH_NO_WAVE      -> LOCK_NO_WAVE
      [] search_status = SEARCH_NOT_IN_RANGE -> LOCK_NOT_IN_RANGE

\* C14: a lock() called while search_status is not DONE does not tune the
\* ring and changes none of lock data, lock code and lock wavelength: all
\* it does is set lock_status to the counterpart of the search_status.
\* Neither that lock() nor any search() raises an exception; a search ends
\* in one of the status values DONE, NO_WAVE, NOT_IN_RANGE.
C14_LockWithoutDoneSearch ==
    [][ \A i \in Slices :
          /\ RxSliceSearchLock(i) =>
                /\ run_pc' = "idle" /\ exc' = ""
                /\ tuner'[i].search_status \in
                      { SEARCH_DONE, SEARCH_NO_WAVE, SEARCH_NOT_IN_RANGE }
          /\ \A mode \in LockModes, select \in 0 .. MaxCallSelect :
                (/\ tuner[i].search_status # SEARCH_DONE
                 /\ RxSliceAcquireLock(i, mode, select)) =>
                   /\ run_pc' = "idle" /\ exc' = ""
                   /\ tuner'[i] =
                        [ tuner[i] EXCEPT !.lock_status =
                            LockCounterpart(tuner[i].search_status) ]
                   /\ curr_wavelength' = curr_wavelength
                   /\ wave_in' = wave_in
                   /\ wave_thru' = wave_thru ]_vars

\* a lock() after a search that found every IN wavelength out of range
C14_Witness ==
    /\ slice_log.op = "acquire_lock"
    /\ tuner[0].search_status = SEARCH_NOT_IN_RANGE
    /\ tuner[0].lock_status = LOCK_NOT_IN_RANGE
    /\ run_pc = "idle"

\* the code nearest mode is claimed to measure from on slice i: that of the
\* latest successful lock since the hard reset, mid-scale if there is none
ClaimedNearestOrigin(i) ==
    IF slice_log.last_locked[i] < 0 THEN VDAC_FS \div 2
    ELSE slice_log.last_locked[i]

\* code is the entry of rank select (from 0) when the codes of search_data
\* are ranked by their distance from origin, whatever order ties take
HasDistanceRank(search_data, origin, code, select) ==
    LET Closer == { k \in DOMAIN search_data :
                      Abs(search_data[k] - origin) < Abs(code - origin) }
        NotFarther == { k \in DOMAIN search_data :
                          Abs(search_data[k] - origin) <= Abs(code - origin) }
    IN  Cardinality(Closer) <= select /\ select < Cardinality(NotFarther)

\* C15 (as claimed): in nearest mode a lock() that finds an entry picks the
\* one of rank select by |code - p|, where p is the voltage code of the
\* tuner's most recent earlier successful lock (kept across soft resets and
\* unlocks) and p is mid-scale 128 only if the tuner has never locked since
\* its hard reset.
C15_NearestToLatestLock ==
    [][ \A i \in Slices, select \in 0 .. MaxCallSelect :
          (/\ tuner[i].search_status = SEARCH_DONE
           /\ select < DictLen(tuner[i].search_data)
           /\ RxSliceAcquireLock(i, "nearest", select)) =>
             HasDistanceRank(tuner[i].search_data, ClaimedNearestOrigin(i),
                             tuner'[i].lock_code, select) ]_vars

\* ------------------------------------------------ claims on repeated runs
\* run_lock_sequence has done its soft reset and its hot-plug and is about
\* to call tick() for the first time
RunJustStarted == run_pc = "tick" /\ n_props = 0 /\ last_tick = ""

\* C16 (as claimed): at the start of every run_lock_sequence, after the soft
\* reset and the hot-plug, every tuner has search_status and lock_status
\* NOT_STARTED, an empty search table, empty search data and lock data, no
\* lock wavelength and no current lock code; every ring is untuned, with
\* IN = THRU = the laser's wave; the arbiter's flags, algorithm position and
\* memory are reset; whatever the previous run left behind.  Only the
\* previous lock code may differ from a fresh system.
C16_NoLeakBetweenRuns ==
    RunJustStarted =>
        /\ \A i \in Slices :
              /\ tuner[i].search_status = SEARCH_NOT_STARTED
              /\ tuner[i].lock_status = LOCK_NOT_STARTED
              /\ tuner[i].search_table = {}
              /\ tuner[i].search_data = EmptyDict
              /\ tuner[i].lock_data = EmptyDict
              /\ tuner[i].lock_wavelength = None
              /\ tuner[i].lock_code = -1
              /\ curr_wavelength[i] = rings[i].wavelength
              /\ wave_in[i] = laser_out
              /\ wave_thru[i] = laser_out
        /\ ~end_state /\ ~lock_error_state
        /\ gen_pos = 0 /\ ~gen_done
        /\ memory = MemoryReset

\* the system is the four-ring example row, with the example laser plugged in
IsExampleRun ==
    /\ num_slices = 4
    /\ \A i \in Slices :
          /\ rings[i].wavelength = ExampleRingWavelengths[i + 1]
          /\ rings[i].fsr = ExampleRingParams.fsr
          /\ rings[i].tuning_range = ExampleRingParams.tuning_range
    /\ arbiter_cls = "SimpleArbiter"
    /\ laser_out = ExampleLaserWavelengths

\* C20: with the four example rings (resonances 1295.52, 1303.66, 1308.0,
\* 1312.34 nm, fsr 8.96 nm, tuning range 4.48 nm), laser wavelengths
\* 1303.52, 1305.76, 1308.0, 1310.24 nm, the one-by-one least-significant
\* arbiter and no target lane order, a run_lock_sequence that has ended has
\* returned SUCCESS and the four slices hold four pairwise distinct lock
\* wavelengths.
C20_ExampleRunSucceeds ==
    (IsExampleRun /\ target_lane_order = None /\ run_pc \in { "done", "raised" }) =>
        /\ run_pc = "done"
        /\ exit_status = {EXIT_SUCCESS}
        /\ \A i \in Slices : tuner[i].lock_wavelength # None
        /\ \A i, j \in Slices :
              i # j => tuner[i].lock_wavelength # tuner[j].lock_wavelength

\* the example run has ended: slices 0..3 hold 1305.76, 1308.0, 1310.24 and
\* 1303.52 nm
C20_Witness ==
    /\ IsExampleRun /\ target_lane_order = None
    /\ run_pc = "done"
    /\ runs = 1
    /\ [ i \in Slices |-> tuner[i].lock_wavelength ] =
          (0 :> <<130576>>) @@ (1 :> <<130800>>) @@ (2 :> <<131024>>)
          @@ (3 :> <<130352>>)

\* ----------------------------------------------- claims on the lane order
\* the run has ended and neither the duplicate check nor the zero-lock check
\* has decided it: the lane-order check did
LaneOrderDecided ==
    /\ run_pc \in { "done", "raised" }
    /\ target_lane_order # None
    /\ ~is_duplicate_lock
    /\ ~lock_error_state

\* rank of slice j's lock wavelength among the lock wavelengths of all slices
LockRank(j) ==
    Cardinality({ i \in Slices :
                    tuner[i].lock_wavelength[1] < tuner[j].lock_wavelength[1] })

\* some offset turns the target order into the ranks of the slices
RanksAreRotationOfTarget ==
    \E i \in 0 .. (num_slices - 1) :
        \A j \in Slices :
            LockRank(j) = (target_lane_order[1][j + 1] + i) % num_slices

\* C17: the lane-order check accepts exactly the cyclic rotations of the
\* target: a run it decides returns SUCCESS if there is an offset i in
\* 0 .. N-1 such that every slice j's lock wavelength has rank
\* (target[j] + i) mod N, and WRONG_LANE_ORDER otherwise; target [0,1,2,3]
\* with actual order [1,2,3,0] is among the accepted.
C17_ExactlyRotationsAccepted ==
    LaneOrderDecided =>
        /\ run_pc = "done"
        /\ exit_status = IF RanksAreRotationOfTarget THEN {EXIT_SUCCESS}
                         ELSE {EXIT_WRONG_LANE_ORDER}

\* target [0,1,2,3], slices locked in the order [1,2,3,0], run returned
\* SUCCESS
C17_Witness ==
    /\ LaneOrderDecided
    /\ target_lane_order = << <<0, 1, 2, 3>> >>
    /\ current_lane_order = <<1, 2, 3, 0>>
    /\ exit_status = {EXIT_SUCCESS}

\* the target order T rotated by k: T_k[j] = (T[j] + k) mod N
RotatedTarget(T, k) == [ j \in 1 .. Len(T) |-> (T[j] + k) % Len(T) ]

\* C18: the lane-order check is rotation-invariant: for the final lock
\* wavelengths of a run it gives the same answer for the target order T and
\* for every rotated target T_k, T_k[j] = (T[j] + k) mod N.
C18_RotationInvariant ==
    LaneOrderDecided =>
        \A k \in 0 .. (num_slices - 1) :
            LaneOrderMatches(RotatedTarget(target_lane_order[1], k))
                = LaneOrderMatches(target_lane_order[1])

\* a run whose lock order is the target [0,2,1,3] rotated by 3
C18_Witness ==
    /\ LaneOrderDecided
    /\ num_slices = 4
    /\ target_lane_order = << <<0, 2, 1, 3>> >>
    /\ current_lane_order = <<3, 1, 0, 2>>
    /\ exit_status = {EXIT_SUCCESS}

\* C19: when the target lane order is absent (lock-to-any), run_lock_sequence
\* does not evaluate the lane-order check (so nothing the check raises leaves
\* the run) and never returns WRONG_LANE_ORDER, whatever the final lock
\* state.
C19_NoTargetNoLaneCheck ==
    target_lane_order = None =>
        /\ exit_status # {EXIT_WRONG_LANE_ORDER}
        /\ exc # "TypeError"
        /\ run_pc = "classify" => ExitClassification.exc = ""

\* a run without target order returned SUCCESS from a final lock state on
\* which the lane-order check would have raised: one slice locked, one not
C19_Witness ==
    /\ target_lane_order = None
    /\ run_pc = "done"
    /\ exit_status = {EXIT_SUCCESS}
    /\ LaneOrderRaises

\* a step in which a Lock instruction on slice i ran to its end: issued by
\* a generic algorithm, or by the one-by-one algorithm at slice i's turn
LockInstRan(i) ==
    /\ run_pc = "algo"
    /\ instr_count' = instr_count + 1
    /\ exc' = ""
    /\ \A j \in Slices \ {i} : tuner'[j] = tuner[j]
    /\ \/ \E mode \in LockModes, select \in 0 .. MaxSelect :
              AlgoLock(i, mode, select)
       \/ /\ SimpleAlgorithmStep
          /\ gen_pos < Len(slice_lock_sequence)
          /\ slice_lock_sequence[gen_pos + 1] = i

\* what a Lock instruction on slice i leaves in LOCK_TABLE, given the value
\* it is said to store for a tuner that ended LOCK_DONE
LockTableAfterLock(i, stored) ==
    IF tuner'[i].lock_status = LOCK_DONE
    THEN /\ i \in DOMAIN memory'.LOCK_TABLE
         /\ memory'.LOCK_TABLE[i] = stored
    ELSE memory'.LOCK_TABLE = memory.LOCK_TABLE

ValidInst ==
    driver_inst.op = "Lock" =>
        (driver_inst.mode \in LockModes /\ driver_inst.select >= 0)

\* C22 (as claimed): every Search, Lock and Unlock instruction marks itself
\* done after exactly one internal step, whatever the state of its target
\* slice (an Unlock of a slice with no LOCK_TABLE entry included): run() or
\* run_step() on an instruction that is not done returns with done set
\* after that single step, and run_step() or run() on a done instruction
\* changes nothing.
C22_SingleStepDone ==
    [][ ((InstRunStep \/ InstRun) /\ ValidInst) =>
            IF driver_inst.done
            THEN /\ Hardware' = Hardware
                 /\ driver_inst' = driver_inst
                 /\ run_pc' = "idle"
            ELSE /\ driver_inst'.done
                 /\ driver_inst'.steps = 1
                 /\ run_pc' = "idle" ]_vars

\* a step that constructs a Search, Lock or Unlock instruction on slice
\* index i
Constructs(i) ==
    \/ InstConstruct("Search", i, "", 0)
    \/ \E mode \in InstModeChoices, select \in InstSelectChoices :
           InstConstruct("Lock", i, mode, select)
    \/ InstConstruct("Unlock", i, "", 0)

\* C23: constructing a Search, Lock or Unlock instruction with a slice
\* index outside 0 .. N-1 (negative or >= N) raises ValueError at the
\* construction and changes no tuner, ring or arbiter-memory state (and
\* leaves the instruction the caller held as it was).
C23_BadIndexRaisesAtConstruction ==
    [][ \A i \in InstIndexChoices \ Slices :
          Constructs(i) =>
              /\ run_pc' = "raised"
              /\ exc' = "ValueError"
              /\ Hardware' = Hardware
              /\ driver_inst' = driver_inst ]_vars

\* a constructor call with slice index -1 raised on a system that holds a
\* lock and a LOCK_TABLE entry
C23_Witness ==
    /\ run_pc = "raised"
    /\ exc = "ValueError"
    /\ slice_log.op = "construct"
    /\ slice_log.slice_idx = -1
    /\ \E j \in Slices :
          /\ tuner[j].lock_status = LOCK_DONE
          /\ j \in DOMAIN memory.LOCK_TABLE

\* C24 (as claimed): a Lock instruction whose mode is outside the four
\* policies or whose select is negative raises when it is run, and the
\* failed call leaves the target slice's search status, search table and
\* data, lock state and ring unchanged.
C24_BadLockArgumentsChangeNothing ==
    [][ ( /\ InstRunStep \/ InstRun
          /\ driver_inst.op = "Lock"
          /\ ~driver_inst.done
          /\ ~ValidInst )
        => /\ run_pc' = "raised"
           /\ exc' = "AssertionError"
           /\ tuner' = tuner
           /\ wave_in' = wave_in
           /\ wave_thru' = wave_thru
           /\ curr_wavelength' = curr_wavelength ]_vars

\* slice i's ring is tuned to a laser wavelength by its tuner's lock
Tuned(i) == tuner[i].lock_wavelength # None

\* C25 (as claimed): right after propagate_wave, a tuned slice's THRU equals
\* its IN minus its tuned wavelength and an untuned slice's THRU equals its
\* IN exactly, for every ring resonance wavelength, one that coincides with
\* an incoming laser wavelength included.
C25_PerRingPropagationRule ==
    [][ Propagate =>
          \A i \in Slices :
              wave_thru'[i] =
                  IF Tuned(i)
                  THEN filter_by_wavelength(wave_in'[i],
                                            tuner[i].lock_wavelength[1], TRUE)
                  ELSE wave_in'[i] ]_vars

\* C26: unlock (RxSlice.release_lock) resets lock_status to NOT_STARTED,
\* clears lock data, lock wavelength and lock code, and puts the ring back
\* to full passthrough (THRU = IN, ring untuned); it leaves search_status,
\* the search table, the search data and the previous lock code unchanged.
C26_UnlockResetsLockKeepsSearch ==
    [][ \A i \in Slices :
          RxSliceReleaseLock(i) =>
              /\ tuner'[i].lock_status = LOCK_NOT_STARTED
              /\ tuner'[i].lock_data = EmptyDict
              /\ tuner'[i].lock_wavelength = None
              /\ tuner'[i].lock_code = -1
              /\ wave_thru'[i] = wave_in'[i]
              /\ curr_wavelength'[i] = rings[i].wavelength
              /\ tuner'[i].search_status = tuner[i].search_status
              /\ tuner'[i].search_table = tuner[i].search_table
              /\ tuner'[i].search_data = tuner[i].search_data
              /\ tuner'[i].lock_code_prev = tuner[i].lock_code_prev ]_vars

\* hot-plug, search, a successful lock and then the unlock, on an IN wave of
\* several wavelengths: the search results are still there, the ring lets
\* everything through
C26_Witness ==
    /\ slice_log.n = 4
    /\ LastCall(0, "release_lock")
    /\ slice_log.last_locked[0] >= 0
    /\ tuner[0].lock_status = LOCK_NOT_STARTED
    /\ tuner[0].search_status = SEARCH_DONE
    /\ Cardinality(tuner[0].search_table) > 1
    /\ wave_thru[0] = wave_in[0]
    /\ Len(wave_in[0]) > 1

\* the OpticalWave objects the driver holds
DriverWaves ==
    { x[1] : x \in { y \in { wave_calc.A, wave_calc.B, wave_calc.out,
                            wave_calc.single, wave_calc.rest } : y # None } }

\* sorted ascending and duplicate-free
IsWaveSet(wave) == \A k \in 1 .. (Len(wave) - 1) : wave[k] < wave[k + 1]

\* C27 (as claimed): every WaveSet value in the system, built by the
\* constructor from a float, a set or a list (a list with repeated values
\* included) or returned by union, difference or a filter, is sorted
\* ascending and duplicate-free, and two WaveSets compare equal exactly when
\* they contain the same set of wavelengths.
C27_WaveSetsSortedUnique ==
    /\ \A wave \in DriverWaves : IsWaveSet(wave)
    /\ wave_calc.op = "eq" =>
          ( (wave_calc.equal = "True")
              <=> (ToSet(wave_calc.A[1]) = ToSet(wave_calc.B[1])) )

\* C28: for every WaveSet A and every index i it has, filter_by_wave_idx(i,
\* invert=False) is the single wavelength at sorted position i,
\* filter_by_wave_idx(i, invert=True) is A without it, their union equals A
\* as a set, and A itself is not modified by either call.
C28_SplitByIndex ==
    [][ \A i \in 0 .. (MaxWaveLen - 1) :
          WaveSplitByWaveIdx(i) =>
              /\ wave_calc'.single = << << wave_calc.A[1][i + 1] >> >>
              /\ ToSet(wave_calc'.rest[1]) =
                     ToSet(wave_calc.A[1]) \ { wave_calc.A[1][i + 1] }
              /\ IsWaveSet(wave_calc'.rest[1])
              /\ ToSet(wave_calc'.out[1]) = ToSet(wave_calc.A[1])
              /\ wave_calc'.A = wave_calc.A ]_vars

\* a wave of two wavelengths split at index 1: the upper wavelength alone,
\* the lower one left over, the union the wave again
C28_Witness ==
    /\ wave_calc.op = "filter_by_wave_idx"
    /\ wave_calc.A = << <<10, 14>> >>
    /\ wave_calc.single = << <<14>> >>
    /\ wave_calc.rest = << <<10>> >>
    /\ wave_calc.out = wave_calc.A

\* C29 (as claimed): in every state reachable through Search, Lock and
\* Unlock instructions, propagations and resets, for every slice
\* lock_status is DONE if and only if lock_wavelength is set, and if and
\* only if lock data holds exactly one entry.
C29_TunerLockConsistency ==
    \A i \in Slices :
        /\ (tuner[i].lock_status = LOCK_DONE) <=> (tuner[i].lock_wavelength # None)
        /\ (tuner[i].lock_status = LOCK_DONE) <=> (DictLen(tuner[i].lock_data) = 1)

\* C30: under the one-by-one arbiter (one Lock per tick, slices in index
\* order), in every reachable state of a run no two slices with lock_status
\* DONE hold the same lock_wavelength.
C30_OneByOneNoDuplicateLock ==
    (arbiter_cls = "SimpleArbiter" /\ runs > 0) =>
        \A i, j \in Slices :
            ( /\ i # j
              /\ tuner[i].lock_status = LOCK_DONE
              /\ tuner[j].lock_status = LOCK_DONE )
            => tuner[i].lock_wavelength # tuner[j].lock_wavelength

\* a finished one-by-one run on rings of equal resonance in which slice 0
\* and slice 1 both locked, slice 1 on an IN wave that no longer held
\* slice 0's wavelength
C30_Witness ==
    /\ arbiter_cls = "SimpleArbiter"
    /\ runs > 0
    /\ run_pc = "done"
    /\ num_slices >= 2
    /\ rings[0].wavelength = rings[1].wavelength
    /\ tuner[0].lock_status = LOCK_DONE
    /\ tuner[1].lock_status = LOCK_DONE
    /\ tuner[0].lock_wavelength[1] \notin ToSet(wave_in[1])
    /\ tuner[1].lock_wavelength[1] \in ToSet(wave_in[0])

\* a run of the one-by-one arbiter
OneByOneRun == arbiter_cls = "SimpleArbiter" /\ runs > 0

\* slice j's tuner, ring and ports are the same before and after the step
SliceUntouched(j) ==
    /\ tuner'[j] = tuner[j]
    /\ curr_wavelength'[j] = curr_wavelength[j]
    /\ wave_in'[j] = wave_in[j]
    /\ wave_thru'[j] = wave_thru[j]

\* slices before k locked, slice k not, slices after k never started
StoppedAtSlice(k) ==
    /\ \A j \in 0 .. (k - 1) : tuner[j].lock_status = LOCK_DONE
    /\ tuner[k].lock_status # LOCK_DONE
    /\ \A j \in (k + 1) .. (num_slices - 1) :
          /\ tuner[j].search_status = SEARCH_NOT_STARTED
          /\ tuner[j].lock_status = LOCK_NOT_STARTED

\* C31: with the one-by-one arbiter on N slices run_lock_sequence always
\* terminates: the loop makes at most N+1 progress ticks, progress tick t
\* (1-based, t <= N) touches only slice t-1, and at the first slice that
\* fails to lock the arbiter sets lock_error_state and stops, with every
\* later slice's search_status and lock_status NOT_STARTED and every earlier
\* slice locked.
C31_OneByOneTerminates ==
    /\ [](OneByOneRun => gen_pos <= num_slices + 1)
    /\ [][ (SimpleAlgorithmStep /\ gen_pos < num_slices) =>
              /\ \A j \in Slices \ {gen_pos} : SliceUntouched(j)
              /\ lock_error_state' = (tuner'[gen_pos].lock_status # LOCK_DONE) ]_vars
    /\ []((OneByOneRun /\ lock_error_state) =>
              /\ gen_pos <= num_slices
              /\ run_pc # "algo"
              /\ StoppedAtSlice(gen_pos - 1))
    /\ ((OneByOneRun /\ run_pc = "tick") ~> (run_pc \in { "done", "raised" }))

\* a one-by-one run on three slices that ended at its second tick: slice 0
\* locked, slice 1 failed, slice 2 never started
C31_Witness ==
    /\ OneByOneRun
    /\ run_pc = "done"
    /\ num_slices = 3
    /\ gen_pos = 2
    /\ lock_error_state
    /\ tuner[0].lock_status = LOCK_DONE
    /\ tuner[1].lock_status = LOCK_NOT_IN_RANGE
    /\ tuner[2].search_status = SEARCH_NOT_STARTED
    /\ tuner[2].lock_status = LOCK_NOT_STARTED

\* the current run_lock_sequence call is over
RunOver == run_pc \in { "done", "raised" }

\* C32: repeatability of the one-by-one least-significant arbiter: a
\* run_lock_sequence that is over has returned the same exit status (or
\* raised the same exception) and left the same per-slice lock wavelengths
\* as every earlier run on the same system with the same laser wavelengths,
\* the first of which ran on the freshly constructed system.
C32_Repeatable ==
    (arbiter_cls = "SimpleArbiter" /\ RunOver) =>
        \A k \in 1 .. Len(returned) :
            returned[k].laser = laser_out =>
                /\ returned[k].exit_status = exit_status
                /\ returned[k].exc = exc
                /\ returned[k].lock_wavelength =
                      [ i \in Slices |-> tuner[i].lock_wavelength ]

\* a second run with the laser grid of the first, fresh, run: both returned
\* SUCCESS with two slices locked to the same two wavelengths
C32_Witness ==
    /\ arbiter_cls = "SimpleArbiter"
    /\ RunOver
    /\ runs = 2
    /\ num_slices = 2
    /\ Len(returned) = 1
    /\ returned[1].laser = laser_out
    /\ returned[1].exit_status = {EXIT_SUCCESS}
    /\ exit_status = {EXIT_SUCCESS}
    /\ tuner[0].lock_wavelength # None
    /\ tuner[1].lock_wavelength # None
    /\ tuner[0].lock_wavelength # tuner[1].lock_wavelength

\* a step in which a Search or a Lock instruction ran to its end: issued by
\* a generic algorithm, or by the one-by-one algorithm
SearchOrLockInstRan ==
    /\ run_pc = "algo"
    /\ instr_count' = instr_count + 1
    /\ exc' = ""
    /\ \/ \E i \in Slices : AlgoSearch(i)
       \/ \E i \in Slices, mode \in LockModes, select \in 0 .. MaxSelect :
              AlgoLock(i, mode, select)
       \/ SimpleAlgorithmStep /\ gen_pos < Len(slice_lock_sequence)

\* C33: arbiter memory mirrors the hardware search state: after every Search
\* or Lock instruction, for every slice i that has an entry in SEARCH_TABLES,
\* SEARCH_TABLES[i] equals slice i's current tuner search table.
C33_SearchTablesMirrorTuner ==
    [][ SearchOrLockInstRan =>
          \A i \in DOMAIN memory'.SEARCH_TABLES :
              memory'.SEARCH_TABLES[i] = tuner'[i].search_table ]_vars

\* the wavelength lies in one of the nine closed windows
\* [center + k*FSR, center + k*FSR + tuning_range], k in -4 .. 4
InSomeWindow(wavelength, ring) ==
    \E k \in -4 .. 4 :
        /\ wavelength >= ring.wavelength + k * ring.fsr
        /\ wavelength <= ring.wavelength + k * ring.fsr + ring.tuning_range

\* the positions (from 0) in slice i's IN of the wavelengths in a window
FoundPositions(i) ==
    { k - 1 : k \in { n \in DOMAIN wave_in[i] :
                        InSomeWindow(wave_in[i][n], rings[i]) } }

\* C34: search() marks a wavelength of IN as found exactly when it lies in
\* one of the nine closed windows; search_status becomes DONE iff at least
\* one wavelength is found and NOT_IN_RANGE iff IN is non-empty and none is
\* found; the search data keys are exactly the positions in IN of the found
\* wavelengths.
C34_SearchOutcome ==
    [][ \A i \in Slices :
          RxSliceSearchLock(i) =>
              /\ DOMAIN tuner'[i].search_data = FoundPositions(i)
              /\ (tuner'[i].search_status = SEARCH_DONE)
                    <=> (FoundPositions(i) # {})
              /\ (tuner'[i].search_status = SEARCH_NOT_IN_RANGE)
                    <=> (wave_in[i] # << >> /\ FoundPositions(i) = {}) ]_vars

\* code is the (s+1)-th lowest of the codes held by the entries of d,
\* counting every entry
NthLowestCode(d, s, code) ==
    /\ Cardinality({ k \in DOMAIN d : d[k] < code }) <= s
    /\ Cardinality({ k \in DOMAIN d : d[k] <= code }) > s

\* code is the (s+1)-th highest of the codes held by the entries of d
NthHighestCode(d, s, code) ==
    /\ Cardinality({ k \in DOMAIN d : d[k] > code }) <= s
    /\ Cardinality({ k \in DOMAIN d : d[k] >= code }) > s

\* the single entry of a lock data dict
LockEntry(d) == LET wave_idx == CHOOSE k \in DOMAIN d : TRUE
                IN  << wave_idx, d[wave_idx] >>

\* C35: on non-empty search data, a lock with least_significant and select s
\* picks an entry of the search data with the (s+1)-th lowest voltage code,
\* and with most_significant an entry with the (s+1)-th highest; select 0
\* yields the minimum, respectively the maximum, code of the search data.
C35_SelectionPolicies ==
    [][ \A i \in Slices, select \in 0 .. MaxCallSelect :
          LET d == tuner[i].search_data
              picked == LockEntry(tuner'[i].lock_data)
              Picks(mode) ==
                  /\ tuner[i].search_status = SEARCH_DONE
                  /\ select < DictLen(d)
                  /\ RxSliceAcquireLock(i, mode, select)
              IsEntry ==
                  /\ DictLen(tuner'[i].lock_data) = 1
                  /\ picked[1] \in DOMAIN d
                  /\ d[picked[1]] = picked[2]
                  /\ tuner'[i].lock_code = picked[2]
          IN  /\ Picks("least_significant") =>
                    /\ IsEntry
                    /\ NthLowestCode(d, select, picked[2])
                    /\ select = 0 => \A k \in DOMAIN d : picked[2] <= d[k]
              /\ Picks("most_significant") =>
                    /\ IsEntry
                    /\ NthHighestCode(d, select, picked[2])
                    /\ select = 0 => \A k \in DOMAIN d : picked[2] >= d[k] ]_vars

\* a most_significant lock with select 0 on the search data of three
\* wavelengths took the highest code
C35_Witness ==
    /\ slice_log.op = "acquire_lock"
    /\ slice_log.mode = "most_significant"
    /\ slice_log.select = 0
    /\ DictLen(tuner[0].search_data) = 3
    /\ tuner[0].lock_status = LOCK_DONE
    /\ tuner[0].lock_data = (2 :> 256)
    /\ tuner[0].lock_code = 256

\* what lock() with the mode does to slice i from the current state: whether
\* it raises, the tuner it leaves and the wave index the ring is tuned to
LockOutcome(i, mode, select) ==
    IF AcquireLockRaises(tuner[i], wave_in[i], mode, select)
    THEN [ raised |-> TRUE,
           tuner  |-> AcquireLockPartial(tuner[i], mode, select),
           tune   |-> None ]
    ELSE [ raised |-> FALSE,
           tuner  |-> acquire_lock(tuner[i], wave_in[i], mode, select).tuner,
           tune   |-> acquire_lock(tuner[i], wave_in[i], mode, select).tune ]

IsNearestInteger(code, num, den) == 2 * Abs(num - code * den) <= den

\* C37: the voltage code recorded by search for a found wavelength w in
\* window [s, s + T] equals round((w - s) / T * 256), the nearest integer,
\* for every w in the window.
C37_CodeIsRounded ==
    [][ \A i \in Slices :
          RxSliceSearchLock(i) =>
              \A wave_idx \in DOMAIN tuner'[i].search_data :
                  \E k \in -4 .. 4 :
                      LET w == wave_in[i][wave_idx + 1]
                          s == rings[i].wavelength + k * rings[i].fsr
                          T == rings[i].tuning_range
                      IN  /\ w >= s /\ w <= s + T
                          /\ IsNearestInteger(tuner'[i].search_data[wave_idx],
                                              (w - s) * VDAC_FS, T) ]_vars

\* the codes of a dict lie in the 8-bit range
CodesFit(d) == \A k \in DOMAIN d : d[k] \in 0 .. (VDAC_FS - 1)

\* C38: every voltage code recorded by search (in the search table, search
\* data, lock data and lock_code) fits the 8-bit DAC range 0..255, including
\* for a wavelength lying exactly on the upper edge of a sweep window.
C38_CodesFitEightBits ==
    \A i \in Slices :
        /\ tuner[i].search_table \subseteq 0 .. (VDAC_FS - 1)
        /\ CodesFit(tuner[i].search_data)
        /\ CodesFit(tuner[i].lock_data)
        /\ tuner[i].lock_status = LOCK_DONE =>
              tuner[i].lock_code \in 0 .. (VDAC_FS - 1)

\* what a reset of either level leaves behind
AfterAnyReset ==
    /\ \A i \in Slices :
          /\ tuner'[i].search_status = SEARCH_NOT_STARTED
          /\ tuner'[i].lock_status = LOCK_NOT_STARTED
          /\ tuner'[i].search_data = EmptyDict
          /\ tuner'[i].lock_data = EmptyDict
          /\ tuner'[i].lock_wavelength = None
    /\ ~end_state'
    /\ ~lock_error_state'
    /\ gen_pos' = 0
    /\ ~gen_done'
    /\ memory'.SEARCH_TABLES = EmptyDict
    /\ memory'.RELATION_INDEX_TABLE = EmptyDict
    /\ memory'.LOCK_TABLE = EmptyDict
    /\ memory'.SCRATCHPAD = {}
    /\ is_connected' = is_connected

\* C39: reset levels: soft_reset leaves each tuner's previous lock code
\* unchanged while hard_reset sets it back to the never-locked value -1;
\* both set search_status and lock_status to NOT_STARTED and clear search
\* data, lock data and lock wavelength; both reset the arbiter's end_state
\* and lock_error_state, restart its algorithm from the beginning and empty
\* the four memory containers; neither changes the ring chain's connections.
C39_ResetLevels ==
    [][ /\ SystemSoftReset =>
              /\ \A i \in Slices :
                    tuner'[i].lock_code_prev = tuner[i].lock_code_prev
              /\ AfterAnyReset
        /\ SystemHardReset =>
              /\ \A i \in Slices : tuner'[i].lock_code_prev = -1
              /\ AfterAnyReset ]_vars

\* the system after a reset that followed a run in which slice 0 locked
\* twice: the previous lock code is still there, so the reset was a soft
\* one, and tuner, arbiter and memory are reset
C39_Witness ==
    /\ runs = 1
    /\ run_pc = "idle"
    /\ tuner[0].lock_code_prev >= 0
    /\ tuner[0].search_status = SEARCH_NOT_STARTED
    /\ tuner[0].lock_status = LOCK_NOT_STARTED
    /\ tuner[0].lock_data = EmptyDict
    /\ gen_pos = 0
    /\ memory = MemoryReset
    /\ is_connected[0]

\* the arguments an algorithm passes to the helpers: nothing, one slice
\* index, or a list of one or two slice indices
HelperArguments ==
    { [ type |-> "None", value |-> << >> ] }
        \cup { [ type |-> "int", value |-> << i >> ] : i \in Slices }
        \cup { [ type |-> "list", value |-> << i >> ] : i \in Slices }
        \cup { [ type |-> "list", value |-> << i, j >> ] : i, j \in Slices }

\* C40: over the slice set S of its argument (all slices when no argument is
\* given, one slice for an index, the listed slices for a list),
\* check_lock_done is true if and only if every slice in S has lock_status
\* DONE, and check_zero_lock is true if and only if at least one slice in S
\* has lock_status NO_WAVE or NOT_IN_RANGE.
C40_ArbiterHelpers ==
    \A rx_idx \in HelperArguments :
        LET S == HelperSlices(HwState, rx_idx)
        IN  /\ check_lock_done(HwState, S)
                  <=> (\A i \in S : tuner[i].lock_status = LOCK_DONE)
            /\ check_zero_lock(HwState, S)
                  <=> (\E i \in S : tuner[i].lock_status
                                       \in { LOCK_NO_WAVE, LOCK_NOT_IN_RANGE })

====
